---------------------------- MODULE Spec2Model ----------------------------
(***************************************************************************)
(* A model of the COST ANALYST backend (getonow/costagentrw):              *)
(*   utils.py     part-number extraction, period keys, chart builders,     *)
(*                breakdown synthesis                                      *)
(*   database.py  the four data-store accessors                            *)
(*   ai_agent.py  the analysis generator and its template fallback         *)
(*   main.py      the POST /chat pipeline and GET /part/{part_number}      *)
(*                                                                         *)
(* Text is a sequence of one-character strings.  Optional values (Python   *)
(* None) are records with a tag, so that a present value never equals an   *)
(* absent one.  An operation that may raise returns Ok(value) or           *)
(* Raise(exception).                                                       *)
(*                                                                         *)
(* Several specifications share the module: Spec runs one HTTP request    *)
(* through main.py; SpecExtract, SpecMonths and the function harnesses     *)
(* exercise the pure functions on inputs drawn from bounded sets.          *)
(***************************************************************************)
EXTENDS Integers, Sequences, FiniteSets, TLC

VARIABLES
    text,        \* extraction harness: the input text
    extracted,   \* extraction harness: extract_part_number(text), once called
    reextracted, \* extraction harness: extract_part_number of that result
    xpc,         \* extraction harness: "input" | "called" | "again"
    now,         \* datetime.now(), as [year, month, day]
    current,     \* period-key harness: get_current_month_format()
    months,      \* period-key harness: get_last_12_months()
    mpc,         \* period-key harness: "input" | "current" | "listed"
    req,         \* the request being handled: the handler's locals and position
    resp,        \* the HTTP response, once the handler has ended
    io,          \* what the request did outside: store reads, completion call
    arg,         \* function harnesses: the arguments drawn
    res,         \* function harnesses: the value returned, once called
    fpc          \* function harnesses: "input" | "called"

xvars == <<text, extracted, reextracted, xpc>>
mvars == <<now, current, months, mpc>>
cvars == <<req, resp, io>>
fvars == <<arg, res, fpc>>
vars  == <<xvars, mvars, cvars, fvars>>

----------------------------------------------------------------------------
(* Characters and the character classes the patterns use.                  *)

Lower26 ==
    <<"a", "b", "c", "d", "e", "f", "g", "h", "i", "j", "k", "l", "m",
      "n", "o", "p", "q", "r", "s", "t", "u", "v", "w", "x", "y", "z">>
Upper26 ==
    <<"A", "B", "C", "D", "E", "F", "G", "H", "I", "J", "K", "L", "M",
      "N", "O", "P", "Q", "R", "S", "T", "U", "V", "W", "X", "Y", "Z">>

UpperLetters == { Upper26[i] : i \in 1..26 }
LowerLetters == { Lower26[i] : i \in 1..26 }
Digits       == {"0", "1", "2", "3", "4", "5", "6", "7", "8", "9"}

\* str.lower() / re.IGNORECASE folding
ToLower(c) ==
    IF c \in UpperLetters
    THEN Lower26[CHOOSE i \in 1..26 : Upper26[i] = c]
    ELSE c

IsLetter(c) == c \in UpperLetters \cup LowerLetters   \* [A-Z] under IGNORECASE
IsDigit(c)  == c \in Digits                           \* \d
IsSpace(c)  == c = " "                                \* \s

DigitChar(n) ==
    CASE n = 0 -> "0" [] n = 1 -> "1" [] n = 2 -> "2" [] n = 3 -> "3"
      [] n = 4 -> "4" [] n = 5 -> "5" [] n = 6 -> "6" [] n = 7 -> "7"
      [] n = 8 -> "8" [] OTHER -> "9"

DigitVal(c) == CHOOSE n \in 0..9 : DigitChar(n) = c

\* Python None / a present string
NoneStr   == [some |-> FALSE, s |-> <<>>]
Some(s)   == [some |-> TRUE, s |-> s]

----------------------------------------------------------------------------
(* Values as they arrive from JSON and travel through pandas: a tag, and   *)
(* for a finite number the fraction n/d (d > 0, in lowest terms).          *)
(*   none    None / JSON null                                              *)
(*   num     a finite int or float                                         *)
(*   nan, inf, ninf   float('nan'), float('inf'), float('-inf')            *)
(*   str     a string float() cannot parse                                 *)
(*   numstr  a string float() parses, holding n/d                          *)
(*   huge    an int too large for a float                                  *)

RECURSIVE Gcd(_, _)
Gcd(a, b) == IF b = 0 THEN a ELSE Gcd(b, a % b)

Abs(a) == IF a < 0 THEN -a ELSE a

Val(tag)  == [t |-> tag, n |-> 0, d |-> 1]
NoneVal   == Val("none")
NaN       == Val("nan")
PosInf    == Val("inf")
NegInf    == Val("ninf")
BadStr    == Val("str")
Huge      == Val("huge")

\* the float n/d
Rat(n, d) ==
    LET g == Gcd(Abs(n), Abs(d))
        s == IF d < 0 THEN -1 ELSE 1
    IN  [t |-> "num", n |-> (s * n) \div g, d |-> (s * d) \div g]

Num(n)    == Rat(n, 1)
NumStr(n) == [t |-> "numstr", n |-> n, d |-> 1]
Zero      == Num(0)

RatAdd(a, b)  == Rat(a.n * b.d + b.n * a.d, a.d * b.d)
RatMul(a, b)  == Rat(a.n * b.n, a.d * b.d)
RatDiv(a, b)  == Rat(a.n * b.d, a.d * b.n)

\* the largest finite float; a sum beyond it is float('inf')
MaxFloat == 1000

\* a + b, a / b and a * b on floats that are finite or +inf, b > 0
FloatAdd(a, b) ==
    IF a.t = "inf" \/ b.t = "inf" THEN PosInf
    ELSE IF RatAdd(a, b).n > MaxFloat * RatAdd(a, b).d THEN PosInf
    ELSE RatAdd(a, b)
FloatDiv(a, b) ==
    IF a.t = "inf" THEN (IF b.t = "inf" THEN NaN ELSE PosInf)
    ELSE IF b.t = "inf" THEN Zero
    ELSE RatDiv(a, b)
FloatMul(a, b) ==
    IF a.t = "inf" \/ b.t = "inf" THEN PosInf
    ELSE IF RatMul(a, b).n > MaxFloat * RatMul(a, b).d THEN PosInf
    ELSE RatMul(a, b)

\* sum(values), from the left
RECURSIVE FloatSum(_)
FloatSum(s) ==
    IF s = <<>> THEN Zero ELSE FloatAdd(FloatSum(SubSeq(s, 1, Len(s) - 1)), s[Len(s)])

\* results of operations that may raise
Ok(v)    == [ok |-> TRUE, val |-> v, exc |-> "none"]
Raise(e) == [ok |-> FALSE, val |-> NoneVal, exc |-> e]

\* float(val)
FloatOf(v) ==
    CASE v.t = "num"    -> Ok(v)
      [] v.t = "numstr" -> Ok(Rat(v.n, v.d))
      [] v.t \in {"nan", "inf", "ninf"} -> Ok(v)
      [] v.t = "str"    -> Raise("ValueError")
      [] v.t = "huge"   -> Raise("OverflowError")
      [] OTHER          -> Raise("TypeError")

\* pd.isna(x) / pd.notna(x) on a scalar
pd_isna(v)  == v.t \in {"none", "nan"}
pd_notna(v) == ~pd_isna(v)

\* value > 0; comparing a string with an int raises TypeError
GreaterThanZero(v) ==
    CASE v.t = "num"  -> Ok(v.n > 0)
      [] v.t \in {"inf", "huge"} -> Ok(TRUE)
      [] v.t \in {"ninf", "nan"} -> Ok(FALSE)
      [] OTHER -> Raise("TypeError")

\* math.isinf(x); an int too large for a float raises OverflowError
math_isinf(v) ==
    CASE v.t \in {"inf", "ninf"} -> Ok(TRUE)
      [] v.t \in {"num", "nan"}  -> Ok(FALSE)
      [] v.t = "huge"            -> Raise("OverflowError")
      [] OTHER                   -> Raise("TypeError")

\* pd.notna(x) and x > 0 and not math.isinf(x), left to right
ValidPositiveFinite(v) ==
    IF ~pd_notna(v) THEN Ok(FALSE)
    ELSE IF ~GreaterThanZero(v).ok THEN GreaterThanZero(v)
    ELSE IF ~GreaterThanZero(v).val THEN Ok(FALSE)
    ELSE IF ~math_isinf(v).ok THEN math_isinf(v)
    ELSE Ok(~math_isinf(v).val)

\* pd.notna(x) and x > 0 (ai_agent.py)
ValidPositive(v) ==
    IF ~pd_notna(v) THEN Ok(FALSE)
    ELSE GreaterThanZero(v)

----------------------------------------------------------------------------
(* Strings.                                                                *)

LowerStr(s) == [i \in 1..Len(s) |-> ToLower(s[i])]          \* s.lower()

\* sub in s
IsSubstring(sub, s) ==
    \E i \in 1..(Len(s) + 1) :
        /\ i + Len(sub) - 1 <= Len(s)
        /\ SubSeq(s, i, i + Len(sub) - 1) = sub

StartsWith(s, p) == Len(p) <= Len(s) /\ SubSeq(s, 1, Len(p)) = p

\* s.replace(old, ''), old non-empty
RECURSIVE RemoveAll(_, _)
RemoveAll(s, old) ==
    IF s = <<>> THEN <<>>
    ELSE IF StartsWith(s, old)
         THEN RemoveAll(SubSeq(s, Len(old) + 1, Len(s)), old)
         ELSE <<Head(s)>> \o RemoveAll(Tail(s), old)

\* int(s) for a string of decimal digits
RECURSIVE DigitsToInt(_)
DigitsToInt(s) ==
    IF s = <<>> THEN 0
    ELSE 10 * DigitsToInt(SubSeq(s, 1, Len(s) - 1)) + DigitVal(s[Len(s)])

AllDigits(s) == s # <<>> /\ \A i \in 1..Len(s) : IsDigit(s[i])

----------------------------------------------------------------------------
(* re.search for the three patterns of extract_part_number.  A greedy run  *)
(* (\d+, \s+, [A-Z]+) ends at the first character outside its class; no    *)
(* shorter run can match, because the character that follows a shortened   *)
(* run is still in the class and the pattern wants one outside it.         *)

RECURSIVE DigitRunEnd(_, _)
DigitRunEnd(t, i) ==     \* first index >= i that holds no digit
    IF i <= Len(t) /\ IsDigit(t[i]) THEN DigitRunEnd(t, i + 1) ELSE i

RECURSIVE LetterRunEnd(_, _)
LetterRunEnd(t, i) ==
    IF i <= Len(t) /\ IsLetter(t[i]) THEN LetterRunEnd(t, i + 1) ELSE i

RECURSIVE SpaceRunEnd(_, _)
SpaceRunEnd(t, i) ==
    IF i <= Len(t) /\ IsSpace(t[i]) THEN SpaceRunEnd(t, i + 1) ELSE i

NoMatch == [found |-> FALSE, start |-> 0, stop |-> 0, gstart |-> 0, gstop |-> 0, ngroups |-> 0]

\* [A-Z]+-\d+ anchored at i: the index after the match, or 0
CodeEndAt(t, i) ==
    LET l == LetterRunEnd(t, i)
    IN  IF /\ l > i
           /\ l + 1 <= Len(t)
           /\ t[l] = "-"
           /\ IsDigit(t[l + 1])
        THEN DigitRunEnd(t, l + 1)
        ELSE 0

\* r'PA-\d+' anchored at i (no group)
MatchPA(t, i) ==
    IF /\ i + 3 <= Len(t)
       /\ ToLower(t[i]) = "p"
       /\ ToLower(t[i + 1]) = "a"
       /\ t[i + 2] = "-"
       /\ IsDigit(t[i + 3])
    THEN [found |-> TRUE, start |-> i, stop |-> DigitRunEnd(t, i + 3),
          gstart |-> 0, gstop |-> 0, ngroups |-> 0]
    ELSE NoMatch

\* r'part\s+([A-Z]+-\d+)' anchored at i (one group: the code)
MatchPart(t, i) ==
    IF /\ i + 4 <= Len(t)
       /\ ToLower(t[i]) = "p"
       /\ ToLower(t[i + 1]) = "a"
       /\ ToLower(t[i + 2]) = "r"
       /\ ToLower(t[i + 3]) = "t"
       /\ IsSpace(t[i + 4])
       /\ CodeEndAt(t, SpaceRunEnd(t, i + 4)) # 0
    THEN LET g == SpaceRunEnd(t, i + 4)
         IN  [found |-> TRUE, start |-> i, stop |-> CodeEndAt(t, g),
              gstart |-> g, gstop |-> CodeEndAt(t, g), ngroups |-> 1]
    ELSE NoMatch

\* r'([A-Z]+-\d+)' anchored at i (one group: the whole match)
MatchCode(t, i) ==
    IF i <= Len(t) /\ CodeEndAt(t, i) # 0
    THEN [found |-> TRUE, start |-> i, stop |-> CodeEndAt(t, i),
          gstart |-> i, gstop |-> CodeEndAt(t, i), ngroups |-> 1]
    ELSE NoMatch

\* the patterns list, in its order
NumPatterns == 3
MatchAt(k, t, i) ==
    CASE k = 1 -> MatchPA(t, i)
      [] k = 2 -> MatchPart(t, i)
      [] OTHER -> MatchCode(t, i)

\* re.search(pattern, message, re.IGNORECASE): the leftmost match
RECURSIVE SearchFrom(_, _, _)
SearchFrom(k, t, i) ==
    IF i > Len(t) THEN NoMatch
    ELSE IF MatchAt(k, t, i).found THEN MatchAt(k, t, i)
    ELSE SearchFrom(k, t, i + 1)

re_search(k, t) == SearchFrom(k, t, 1)

\* mutant: the whole match is returned, whatever the groups
GroupOfWholeMatch(t, m) == SubSeq(t, m.start, m.stop - 1)

\* match.group(1) if len(match.groups()) > 0 else match.group(0)
GroupOf(t, m) ==
    IF m.ngroups > 0 THEN SubSeq(t, m.gstart, m.gstop - 1)
    ELSE SubSeq(t, m.start, m.stop - 1)

\* for pattern in patterns: ... return on the first pattern that matches
RECURSIVE ExtractFrom(_, _)
ExtractFrom(k, t) ==
    IF k > NumPatterns THEN NoneStr
    ELSE IF re_search(k, t).found THEN Some(GroupOf(t, re_search(k, t)))
    ELSE ExtractFrom(k + 1, t)

\* mutant: the earliest match of any pattern wins (ties: the first pattern)
ExtractEarliest(message) ==
    LET found == { k \in 1..NumPatterns : re_search(k, message).found }
    IN  IF found = {} THEN NoneStr
        ELSE LET k == CHOOSE x \in found :
                        \A y \in found :
                           \/ re_search(x, message).start < re_search(y, message).start
                           \/ /\ re_search(x, message).start = re_search(y, message).start
                              /\ x <= y
             IN  Some(GroupOf(message, re_search(k, message)))

extract_part_number(message) == ExtractFrom(1, message)

----------------------------------------------------------------------------
(* Calendar dates, as datetime keeps them: a proleptic Gregorian date and  *)
(* its ordinal (day 1 is 0001-01-01).                                       *)

IsLeap(y) == (y % 4 = 0) /\ ((y % 100 # 0) \/ (y % 400 = 0))

DaysInMonth(y, m) ==
    CASE m \in {4, 6, 9, 11} -> 30
      [] m = 2 -> IF IsLeap(y) THEN 29 ELSE 28
      [] OTHER -> 31

DaysBeforeYear(y) ==
    LET p == y - 1 IN p * 365 + (p \div 4) - (p \div 100) + (p \div 400)

RECURSIVE DaysBeforeMonth(_, _)
DaysBeforeMonth(y, m) ==
    IF m = 1 THEN 0 ELSE DaysBeforeMonth(y, m - 1) + DaysInMonth(y, m - 1)

ToOrdinal(d) == DaysBeforeYear(d.year) + DaysBeforeMonth(d.year, d.month) + d.day

RECURSIVE YearOfOrdinal(_, _)
YearOfOrdinal(n, y) ==
    IF n > DaysBeforeYear(y + 1) THEN YearOfOrdinal(n, y + 1)
    ELSE IF n <= DaysBeforeYear(y) THEN YearOfOrdinal(n, y - 1)
    ELSE y

RECURSIVE MonthOfOrdinal(_, _, _)
MonthOfOrdinal(n, y, m) ==
    IF n > DaysBeforeYear(y) + DaysBeforeMonth(y, m) + DaysInMonth(y, m)
    THEN MonthOfOrdinal(n, y, m + 1)
    ELSE m

FromOrdinal(n) ==
    LET y == YearOfOrdinal(n, (n \div 366) + 1)
        m == MonthOfOrdinal(n, y, 1)
    IN  [year |-> y, month |-> m,
         day |-> n - DaysBeforeYear(y) - DaysBeforeMonth(y, m)]

\* now - timedelta(days=n)
DateMinusDays(d, n) == FromOrdinal(ToOrdinal(d) - n)

----------------------------------------------------------------------------
(* Period keys (utils.py): "<abbreviation>-<two-digit year>".               *)

\* month_names of get_current_month_format and get_last_12_months
month_names ==
    << <<"e", "n", "e">>, <<"f", "e", "b">>, <<"m", "a", "r">>,
       <<"a", "b", "r">>, <<"m", "a", "y">>, <<"j", "u", "n">>,
       <<"j", "u", "l">>, <<"a", "g", "o">>, <<"s", "e", "p">>,
       <<"o", "c", "t">>, <<"n", "o", "v">>, <<"d", "i", "c">> >>

\* str(n) for n >= 0
RECURSIVE IntToStr(_)
IntToStr(n) ==
    IF n < 10 THEN <<DigitChar(n)>>
    ELSE IntToStr(n \div 10) \o <<DigitChar(n % 10)>>

\* s[-2:]
LastTwo(s) == IF Len(s) <= 2 THEN s ELSE SubSeq(s, Len(s) - 1, Len(s))

\* f"{month}-{year}" with month_names[date.month - 1] and str(date.year)[-2:]
PeriodKey(d) == month_names[d.month] \o <<"-">> \o LastTwo(IntToStr(d.year))

get_current_month_format(t) == PeriodKey(t)

\* for i in range(12): months.append(key of now - timedelta(days=30*i))
RECURSIVE MonthsAppended(_, _)
MonthsAppended(t, n) ==
    IF n = 0 THEN <<>>
    ELSE Append(MonthsAppended(t, n - 1), PeriodKey(DateMinusDays(t, 30 * (n - 1))))

\* months[::-1]
Reversed(s) == [i \in 1..Len(s) |-> s[Len(s) + 1 - i]]

\* mutant: the list is returned as appended, newest first
get_last_12_months_unreversed(t) == MonthsAppended(t, 12)

get_last_12_months(t) == Reversed(MonthsAppended(t, 12))

----------------------------------------------------------------------------
(* map_material_to_index (utils.py).  A material is a JSON value: a string *)
(* [t |-> "str", s |-> chars], null, or a number.                          *)

MatStr(s)  == [t |-> "str", s |-> s]
MatNone    == [t |-> "none", s |-> <<>>]
MatNum     == [t |-> "num", s |-> <<>>]       \* a non-zero number

NoCategory == "None"

\* the keyword lists, in the order of the if/elif chain
C3Table ==
    << [cat |-> "PA6",  kws |-> {<<"p", "a", "6">>, <<"p", "o", "l", "y", "a", "m", "i", "d", "e", " ", "6">>, <<"n", "y", "l", "o", "n", " ", "6">>}],
       [cat |-> "PA66", kws |-> {<<"p", "a", "6", "6">>, <<"p", "o", "l", "y", "a", "m", "i", "d", "e", " ", "6", "6">>, <<"n", "y", "l", "o", "n", " ", "6", "6">>}],
       [cat |-> "PP",   kws |-> {<<"p", "p">>, <<"p", "o", "l", "y", "p", "r", "o", "p", "y", "l", "e", "n", "e">>, <<"p", "p", "s">>,
                                 <<"p", "o", "l", "y", "p", "h", "e", "n", "y", "l", "e", "n", "e", " ", "s", "u", "l", "f", "i", "d", "e">>}] >>

DefaultTable ==
    << [cat |-> "PA6",  kws |-> {<<"p", "a", "6">>, <<"p", "o", "l", "y", "a", "m", "i", "d", "e", " ", "6">>, <<"n", "y", "l", "o", "n", " ", "6">>}],
       [cat |-> "PA66", kws |-> {<<"p", "a", "6", "6">>, <<"p", "o", "l", "y", "a", "m", "i", "d", "e", " ", "6", "6">>, <<"n", "y", "l", "o", "n", " ", "6", "6">>}],
       [cat |-> "PP",   kws |-> {<<"p", "p">>, <<"p", "o", "l", "y", "p", "r", "o", "p", "y", "l", "e", "n", "e">>}],
       [cat |-> "PPS",  kws |-> {<<"p", "p", "s">>, <<"p", "o", "l", "y", "p", "h", "e", "n", "y", "l", "e", "n", "e", " ", "s", "u", "l", "f", "i", "d", "e">>}],
       [cat |-> "PPA",  kws |-> {<<"p", "p", "a">>, <<"p", "o", "l", "y", "p", "h", "t", "h", "a", "l", "a", "m", "i", "d", "e">>}] >>

\* the first branch one of whose keywords is in material_lower
RECURSIVE FirstBranch(_, _, _)
FirstBranch(table, i, material_lower) ==
    IF i > Len(table) THEN NoCategory
    ELSE IF \E x \in table[i].kws : IsSubstring(x, material_lower)
         THEN table[i].cat
         ELSE FirstBranch(table, i + 1, material_lower)

map_material_to_index(material, for_c3) ==
    IF material.t = "none" \/ (material.t = "str" /\ material.s = <<>>)
    THEN Ok(NoCategory)                          \* if not material
    ELSE IF material.t # "str"
    THEN Raise("AttributeError")                 \* material.lower()
    ELSE Ok(FirstBranch(IF for_c3 THEN C3Table ELSE DefaultTable, 1,
                        LowerStr(material.s)))

----------------------------------------------------------------------------
(* Records of the store.                                                   *)
(*   part record   [material |-> a material or MatAbsent,                  *)
(*                  fields   |-> the other columns, in declaration order,  *)
(*                               each [col |-> name, val |-> value]]       *)
(*   CBS record    a function from the columns present to their values     *)
(*   index row     [month |-> a period key (Some) or NoneStr,              *)
(*                  monthlyavgeuro |-> value or Absent]                    *)
(* A one-row DataFrame built from a record keeps its columns and values.   *)

MatAbsent == [t |-> "absent", s |-> <<>>]     \* no 'material' column
Absent    == Val("absent")                    \* the key is not in the row

cost_components ==
    <<"rawmaterial", "machine", "labor", "overhead", "energy",
      "packaginglogistics", "profit">>

\* component.replace('packaginglogistics', 'Packaging & Logistics').title()
ComponentLabel(c) ==
    CASE c = "rawmaterial" -> "Rawmaterial"
      [] c = "machine"     -> "Machine"
      [] c = "labor"       -> "Labor"
      [] c = "overhead"    -> "Overhead"
      [] c = "energy"      -> "Energy"
      [] c = "packaginglogistics" -> "Packaging & Logistics"
      [] OTHER             -> "Profit"

\* part_data['material'].iloc[0] if 'material' in part_data.columns else "Unknown"
MaterialOf(part_data) ==
    IF part_data.material.t = "absent" THEN MatStr(<<"U", "n", "k", "n", "o", "w", "n">>)
    ELSE part_data.material

\* [col for col in part_data.columns if col.startswith('price') and 'mkt' not in col]
RECURSIVE PriceColumns(_)
PriceColumns(fields) ==
    IF fields = <<>> THEN <<>>
    ELSE IF StartsWith(Head(fields).col, <<"p", "r", "i", "c", "e">>) /\ ~IsSubstring(<<"m", "k", "t">>, Head(fields).col)
         THEN <<Head(fields)>> \o PriceColumns(Tail(fields))
         ELSE PriceColumns(Tail(fields))

----------------------------------------------------------------------------
(* Charts: what fig.to_dict() carries, or the error marker.                *)

NoTitle == [text |-> "", part |-> <<>>]

ErrorChart(msg) ==
    [kind |-> "error", error |-> msg, title |-> NoTitle,
     x |-> <<>>, y |-> <<>>, labels |-> <<>>]

Figure(kind, title, x, y, labels) ==
    [kind |-> kind, error |-> "", title |-> title,
     x |-> x, y |-> y, labels |-> labels]

\* a datetime on a chart axis: parsed from a name, or datetime.now()
ChartDate(y, m, how) == [year |-> y, month |-> m, day |-> 1, how |-> how]
NowDate(clock) ==
    [year |-> clock.year, month |-> clock.month, day |-> clock.day, how |-> "now"]

\* month_names of create_price_trend_chart
english_month_names ==
    << <<"j", "a", "n">>, <<"f", "e", "b">>, <<"m", "a", "r">>, <<"a", "p", "r">>, <<"m", "a", "y">>, <<"j", "u", "n">>,
       <<"j", "u", "l">>, <<"a", "u", "g">>, <<"s", "e", "p">>, <<"o", "c", "t">>, <<"n", "o", "v">>, <<"d", "e", "c">> >>

MonthNumber(table, mon) ==
    IF \E k \in 1..12 : table[k] = mon
    THEN CHOOSE k \in 1..12 : table[k] = mon
    ELSE 0

\* datetime(int(year), month, 1): ValueError unless year is a number in 1..9999
YearOk(year) == AllDigits(year) /\ DigitsToInt(year) \in 1..9999

\* mutant: the length of the suffix is not tested
PriceStepAnyLength(acc, f) ==
    LET month_year == RemoveAll(f.col, <<"p", "r", "i", "c", "e">>)
        month == SubSeq(month_year, 1, 3)
        year  == SubSeq(month_year, 4, Len(month_year))
        m     == MonthNumber(english_month_names, month)
        test  == ValidPositiveFinite(f.val)
    IN  IF ~acc.ok \/ m = 0 THEN acc
        ELSE IF ~YearOk(year) THEN acc
        ELSE IF ~test.ok /\ test.exc = "TypeError" THEN acc
        ELSE IF ~test.ok THEN [acc EXCEPT !.ok = FALSE, !.exc = test.exc]
        ELSE IF ~test.val THEN acc
        ELSE [acc EXCEPT !.prices = Append(@, FloatOf(f.val).val),
                         !.dates  = Append(@, ChartDate(DigitsToInt(year), m, "parsed"))]

\* one turn of the loop of create_price_trend_chart over a price column:
\* acc is [ok, prices, dates, exc]
PriceStep(acc, f) ==
    LET month_year == RemoveAll(f.col, <<"p", "r", "i", "c", "e">>)
        month == SubSeq(month_year, 1, 3)
        year  == SubSeq(month_year, 4, Len(month_year))
        m     == MonthNumber(english_month_names, month)
        test  == ValidPositiveFinite(f.val)
    IN  IF ~acc.ok \/ Len(month_year) < 7 \/ m = 0 THEN acc
        ELSE IF ~YearOk(year) THEN acc                      \* ValueError: continue
        ELSE IF ~test.ok /\ test.exc = "TypeError" THEN acc \* TypeError: continue
        ELSE IF ~test.ok THEN [acc EXCEPT !.ok = FALSE, !.exc = test.exc]
        ELSE IF ~test.val THEN acc
        ELSE [acc EXCEPT !.prices = Append(@, FloatOf(f.val).val),
                         !.dates  = Append(@, ChartDate(DigitsToInt(year), m, "parsed"))]

RECURSIVE PriceLoop(_, _)
PriceLoop(acc, cols) ==
    IF cols = <<>> THEN acc ELSE PriceLoop(PriceStep(acc, Head(cols)), Tail(cols))

create_price_trend_chart(part_data, part_number) ==
    LET r == PriceLoop([ok |-> TRUE, prices |-> <<>>, dates |-> <<>>, exc |-> "none"],
                       PriceColumns(part_data.fields))
    IN  IF ~r.ok THEN Raise(r.exc)
        ELSE IF r.prices = <<>> THEN Ok(ErrorChart("No valid price data found"))
        ELSE Ok(Figure("scatter", [text |-> "Price Trend - ", part |-> part_number],
                       r.dates, r.prices, <<>>))

\* the loop of create_cbs_pie_chart: acc is [ok, labels, values, total, exc]
RECURSIVE PieLoop(_, _, _)
PieLoop(acc, cbs_data, i) ==
    IF i > Len(cost_components) \/ ~acc.ok THEN acc
    ELSE LET c == cost_components[i]
             test == ValidPositiveFinite(cbs_data[c])
         IN  IF c \notin DOMAIN cbs_data THEN PieLoop(acc, cbs_data, i + 1)
             ELSE IF ~test.ok THEN [acc EXCEPT !.ok = FALSE, !.exc = test.exc]
             ELSE IF ~test.val THEN PieLoop(acc, cbs_data, i + 1)
             ELSE PieLoop([acc EXCEPT !.labels = Append(@, ComponentLabel(c)),
                                      !.values = Append(@, FloatOf(cbs_data[c]).val),
                                      !.total  = FloatAdd(@, FloatOf(cbs_data[c]).val)],
                          cbs_data, i + 1)

\* mutant: each value against the first one
PercentagesOfFirst(values, total) ==
    IF GreaterThanZero(total).val
    THEN [i \in 1..Len(values) |-> FloatMul(FloatDiv(values[i], values[1]), Num(100))]
    ELSE <<>>

\* percentages = [(v/total)*100 for v in values], computed if total > 0
Percentages(values, total) ==
    IF GreaterThanZero(total).val
    THEN [i \in 1..Len(values) |-> FloatMul(FloatDiv(values[i], total), Num(100))]
    ELSE <<>>

\* title = f"CBS-Suggested for {part_number}" if is_suggested else f"CBS {part_number}"
PieTitle(part_number, is_suggested) ==
    [text |-> IF is_suggested THEN "CBS-Suggested for " ELSE "CBS ", part |-> part_number]

create_cbs_pie_chart(cbs_data, part_number, is_suggested) ==
    LET r == PieLoop([ok |-> TRUE, labels |-> <<>>, values |-> <<>>,
                      total |-> Zero, exc |-> "none"], cbs_data, 1)
    IN  IF ~r.ok THEN Raise(r.exc)
        ELSE Ok(Figure("pie", PieTitle(part_number, is_suggested), <<>>, r.values, r.labels))

\* the price loop of suggest_cbs_structure: no exception is caught
RECURSIVE ValidPrices(_, _)
ValidPrices(acc, cols) ==
    IF cols = <<>> \/ ~acc.ok THEN acc
    ELSE LET test == ValidPositiveFinite(Head(cols).val)
         IN  IF ~test.ok THEN [acc EXCEPT !.ok = FALSE, !.exc = test.exc]
             ELSE IF ~test.val THEN ValidPrices(acc, Tail(cols))
             ELSE ValidPrices([acc EXCEPT !.prices = Append(@, FloatOf(Head(cols).val).val)],
                              Tail(cols))

RECURSIVE RatSum(_)
RatSum(s) == IF s = <<>> THEN Zero ELSE RatAdd(Head(s), RatSum(Tail(s)))

\* mutant: seven equal weights
SuggestedPercentEven(c) == 14

\* the weights of the suggested breakdown, in percent
SuggestedPercent(c) ==
    CASE c = "rawmaterial" -> 35
      [] c = "machine"     -> 20
      [] c = "labor"       -> 15
      [] c = "overhead"    -> 10
      [] c = "energy"      -> 8
      [] c = "packaginglogistics" -> 7
      [] OTHER             -> 5

ComponentSet == { cost_components[i] : i \in 1..Len(cost_components) }

suggest_cbs_structure(part_data) ==
    LET r == ValidPrices([ok |-> TRUE, prices |-> <<>>, exc |-> "none"],
                         PriceColumns(part_data.fields))
        mean == FloatDiv(FloatSum(r.prices), Num(Len(r.prices)))
        avg_price == IF r.prices = <<>> THEN Num(100)
                     ELSE IF pd_isna(mean) \/ mean.t \in {"inf", "ninf"} THEN Num(100)
                     ELSE mean
        value(c) == FloatMul(avg_price, Rat(SuggestedPercent(c), 100))
    IN  IF ~r.ok THEN Raise(r.exc)
        ELSE Ok([c \in ComponentSet |->
                    IF pd_isna(value(c)) \/ value(c).t \in {"inf", "ninf"} THEN Zero
                    ELSE value(c)])

\* mutant: the English table
chart_month_names_english ==
    << <<"j", "a", "n">>, <<"f", "e", "b">>, <<"m", "a", "r">>, <<"a", "p", "r">>, <<"m", "a", "y">>, <<"j", "u", "n">>,
       <<"j", "u", "l">>, <<"a", "u", "g">>, <<"s", "e", "p">>, <<"o", "c", "t">>, <<"n", "o", "v">>, <<"d", "e", "c">> >>

\* month_names of create_market_trend_chart
chart_month_names ==
    << <<"e", "n", "e">>, <<"f", "e", "b">>, <<"m", "a", "r">>, <<"a", "b", "r">>, <<"m", "a", "y">>, <<"j", "u", "n">>,
       <<"j", "u", "l">>, <<"a", "g", "o">>, <<"s", "e", "p">>, <<"o", "c", "t">>, <<"n", "o", "v">>, <<"d", "i", "c">> >>

\* the positions of '-' in s
Hyphens(s) == { i \in 1..Len(s) : s[i] = "-" }

\* one month_str of the dates loop; whatever goes wrong gives datetime.now()
TrendDate(month_key, clock) ==
    IF ~month_key.some \/ Cardinality(Hyphens(month_key.s)) # 1
    THEN NowDate(clock)          \* not a string, or split('-') gives no pair
    ELSE LET h     == CHOOSE i \in Hyphens(month_key.s) : TRUE
             month == SubSeq(month_key.s, 1, h - 1)
             year  == SubSeq(month_key.s, h + 1, Len(month_key.s))
             m     == MonthNumber(chart_month_names, month)
         IN  IF m = 0 THEN NowDate(clock)
             ELSE IF ~AllDigits(year) \/ 2000 + DigitsToInt(year) > 9999
                  THEN NowDate(clock)
                  ELSE ChartDate(2000 + DigitsToInt(year), m, "parsed")

TrendDates(rows, clock) == [i \in 1..Len(rows) |-> TrendDate(rows[i].month, clock)]

\* one value of the values loop: [ok, val, exc]
TrendValue(v) ==
    IF v.t = "absent" \/ ~pd_notna(v) THEN Ok(Zero)     \* NaN in the column
    ELSE IF ~math_isinf(v).ok
         THEN IF math_isinf(v).exc = "TypeError" THEN Ok(Zero) ELSE math_isinf(v)
    ELSE IF math_isinf(v).val THEN Ok(Zero)
    ELSE Ok(FloatOf(v).val)

TrendValues(rows) == [i \in 1..Len(rows) |-> TrendValue(rows[i].monthlyavgeuro)]

\* create_market_trend_chart.  The figure is laid out with
\* update_layout(..., y_axis_title=y_axis_title, ...): the layout has no
\* property 'y' ('xaxis_title' and 'yaxis_title' are the names the other
\* builders use), and plotly rejects an unknown property with ValueError.
create_market_trend_chart(trend_data, title, clock) ==
    IF trend_data = <<>>
    THEN Ok(ErrorChart("No data available for " \o title))
    ELSE IF \A i \in 1..Len(trend_data) : ~trend_data[i].month.some
    THEN Raise("KeyError")                       \* no 'month' column
    ELSE IF \A i \in 1..Len(trend_data) : trend_data[i].monthlyavgeuro.t = "absent"
    THEN Raise("KeyError")                       \* no 'monthlyavgeuro' column
    ELSE IF \E i \in 1..Len(trend_data) : ~TrendValues(trend_data)[i].ok
    THEN Raise("OverflowError")
    ELSE IF TrendValues(trend_data) = <<>>
            \/ Len(TrendValues(trend_data)) # Len(TrendDates(trend_data, clock))
    THEN Ok(ErrorChart("Invalid data for " \o title))
    ELSE Raise("ValueError")

----------------------------------------------------------------------------
(* The data store (database.py).  A reply is what requests.get does: it    *)
(* raises, or answers with a status code and JSON rows.  sent is FALSE for *)
(* a lookup the handler does not make.                                     *)

Reply(status, rows) == [sent |-> TRUE, exc |-> FALSE, status |-> status, rows |-> rows]
RequestFails        == [sent |-> TRUE, exc |-> TRUE, status |-> 0, rows |-> <<>>]
NotSent             == [sent |-> FALSE, exc |-> FALSE, status |-> 0, rows |-> <<>>]

\* mutant: the status code is not looked at
HasRowsAnyStatus(reply) == ~reply.exc /\ reply.rows # <<>>

\* if response.status_code == 200 and response.json()
HasRows(reply) == ~reply.exc /\ reply.status = 200 /\ reply.rows # <<>>

NoRecord == [some |-> FALSE, rec |-> <<>>]
Record(r) == [some |-> TRUE, rec |-> r]

NoRows == [some |-> FALSE, rows |-> <<>>]
Rows(rs) == [some |-> TRUE, rows |-> rs]

\* return response.json()[0], or None
get_part_from_master_file(reply) ==
    IF HasRows(reply) THEN Record(reply.rows[1]) ELSE NoRecord

get_cbs_for_part(reply) ==
    IF HasRows(reply) THEN Record(reply.rows[1]) ELSE NoRecord

\* return response.json(), or None
get_baseline_index(reply) ==
    IF HasRows(reply) THEN Rows(reply.rows) ELSE NoRows

get_baseline_index_trend(reply) ==
    IF HasRows(reply) THEN Rows(reply.rows) ELSE NoRows

----------------------------------------------------------------------------
(* Text put together by f-strings: a sequence of segments, each a literal  *)
(* of the source, the characters of a string variable, or a number.        *)

Lit(s)    == [kind |-> "lit",   lit |-> s,  chars |-> <<>>, val |-> NoneVal]
Chars(c)  == [kind |-> "chars", lit |-> "", chars |-> c,    val |-> NoneVal]
Number(v) == [kind |-> "val",   lit |-> "", chars |-> <<>>, val |-> v]

\* the text is not the empty string
NonEmptyText(segs) ==
    \E i \in 1..Len(segs) :
        \/ segs[i].kind = "lit" /\ segs[i].lit # ""
        \/ segs[i].kind = "chars" /\ segs[i].chars # <<>>
        \/ segs[i].kind = "val"

\* the text has the string c in it, as one of the interpolated strings
TextContains(segs, c) ==
    \E i \in 1..Len(segs) : segs[i].kind = "chars" /\ IsSubstring(c, segs[i].chars)

----------------------------------------------------------------------------
(* CostAnalystAgent (ai_agent.py).                                         *)

\* the prices loop of _prepare_analysis_context: pd.notna(price) and price > 0
RECURSIVE ContextPrices(_, _)
ContextPrices(acc, cols) ==
    IF cols = <<>> \/ ~acc.ok THEN acc
    ELSE LET test == ValidPositive(Head(cols).val)
             f    == FloatOf(Head(cols).val)
         IN  IF ~test.ok THEN [acc EXCEPT !.ok = FALSE, !.exc = test.exc]
             ELSE IF ~test.val THEN ContextPrices(acc, Tail(cols))
             ELSE IF ~f.ok THEN [acc EXCEPT !.ok = FALSE, !.exc = f.exc]
             ELSE ContextPrices([acc EXCEPT !.prices = Append(@, f.val)], Tail(cols))

\* the cost_components loop of _prepare_analysis_context: the columns kept
RECURSIVE ContextCbs(_, _, _)
ContextCbs(acc, cbs_data, i) ==
    IF i > Len(cost_components) \/ ~acc.ok THEN acc
    ELSE LET c    == cost_components[i]
             test == ValidPositive(cbs_data[c])
             f    == FloatOf(cbs_data[c])
         IN  IF c \notin DOMAIN cbs_data THEN ContextCbs(acc, cbs_data, i + 1)
             ELSE IF ~test.ok THEN [acc EXCEPT !.ok = FALSE, !.exc = test.exc]
             ELSE IF ~test.val THEN ContextCbs(acc, cbs_data, i + 1)
             ELSE IF ~f.ok THEN [acc EXCEPT !.ok = FALSE, !.exc = f.exc]
             ELSE ContextCbs([acc EXCEPT !.kept = @ \cup {c}], cbs_data, i + 1)

\* the trends loop: a frame with rows needs the column 'monthlyavgeuro' and
\* numbers in it (sum(values), values[-1] > values[0])
TrendSummaryFails(trend_data) ==
    /\ trend_data # <<>>
    /\ \E i \in 1..Len(trend_data) : trend_data[i].monthlyavgeuro.t # "num"

_prepare_analysis_context(part_data, cbs_data, market_indices, market_trends, part_number, user_message) ==
    LET p == ContextPrices([ok |-> TRUE, prices |-> <<>>, exc |-> "none"],
                           PriceColumns(part_data.fields))
        c == ContextCbs([ok |-> TRUE, kept |-> {}, exc |-> "none"], cbs_data, 1)
    IN  IF ~p.ok THEN Raise(p.exc)
        ELSE IF ~c.ok THEN Raise(c.exc)
        ELSE IF \E k \in DOMAIN market_trends : TrendSummaryFails(market_trends[k])
        THEN Raise("TypeError")
        ELSE Ok([part_number  |-> part_number,
                 user_message |-> user_message,
                 prices       |-> p.prices,
                 cbs_info     |-> [k \in c.kept |-> FloatOf(cbs_data[k]).val],
                 market_data  |-> market_indices,
                 trends       |-> { k \in DOMAIN market_trends : market_trends[k] # <<>> }])

\* a > b on two floats: False with NaN on either side
FloatGreater(a, b) ==
    IF a.t = "nan" \/ b.t = "nan" THEN FALSE
    ELSE IF a.t = "inf" THEN b.t # "inf"
    ELSE IF b.t = "ninf" THEN a.t # "ninf"
    ELSE IF a.t = "ninf" \/ b.t = "inf" THEN FALSE
    ELSE a.n * b.d > b.n * a.d

\* mutant: the last element against the one before it
TrendDirectionOfLastStep(values) ==
    LET prev == values[IF Len(values) > 1 THEN Len(values) - 1 ELSE 1]
    IN  IF FloatGreater(values[Len(values)], prev) THEN "increasing"
        ELSE IF FloatGreater(prev, values[Len(values)]) THEN "decreasing"
        ELSE "stable"

\* "increasing" if values[-1] > values[0] else "decreasing" if values[-1] < values[0] else "stable"
TrendDirection(values) ==
    IF FloatGreater(values[Len(values)], values[1]) THEN "increasing"
    ELSE IF FloatGreater(values[1], values[Len(values)]) THEN "decreasing"
    ELSE "stable"

\* context["part_info"]["price_trend"], set if prices
PriceTrend(context) ==
    IF context.prices = <<>> THEN "absent" ELSE TrendDirection(context.prices)

\* context["trends"][trend_type] of a frame with rows: current, avg, trend
TrendSummary(trend_data) ==
    LET values == [i \in 1..Len(trend_data) |-> trend_data[i].monthlyavgeuro]
    IN  [current |-> values[Len(values)],
         avg     |-> FloatDiv(FloatSum(values), Num(Len(values))),
         trend   |-> TrendDirection(values)]

\* context["part_info"]["current_price"] = prices[-1], set if prices
CurrentPrice(context) ==
    IF context.prices = <<>> THEN Absent ELSE context.prices[Len(context.prices)]

\* mutant: a template that does not name the part
_generate_fallback_analysis_unnamed(part_data_empty, cbs_data_empty, market_indices, part_number) ==
    << Lit("# COST ANALYSIS REPORT"),
       Lit("## Key Findings / Part identified in master file: "),
       Lit(IF ~part_data_empty THEN "Yes" ELSE "No"),
       Lit("## Recommendations ... ## Next Steps ...") >>

\* f"""# COST ANALYSIS REPORT - {part_number} ... for part {part_number}. ..."""
\* market_indices is the dict of the three indices, so the block under
\* "Market Conditions" is always added
_generate_fallback_analysis(part_data_empty, cbs_data_empty, market_indices, part_number) ==
    << Lit("# COST ANALYSIS REPORT - "), Chars(part_number),
       Lit("## Executive Summary / Analysis completed for part "), Chars(part_number),
       Lit("## Key Findings / Part identified in master file: "),
       Lit(IF ~part_data_empty THEN "Yes" ELSE "No"),
       Lit("CBS data available: "),
       Lit(IF ~cbs_data_empty THEN "Yes" ELSE "No"),
       Lit("Market indices retrieved: "),
       Number(Num(Cardinality(DOMAIN market_indices))),
       Lit(" out of 3 expected / ## Market Conditions"),
       Lit("Raw Material Index: "), Number(market_indices.raw_material),
       Lit("Electricity Index: "),  Number(market_indices.electricity),
       Lit("Natural Gas Index: "),  Number(market_indices.gas),
       Lit("## Recommendations ... ## Next Steps ...") >>

\* what client.chat.completions.create does: raises, or answers with no
\* choice, with a choice without content, or with a choice with content
CompletionOutcomes == {"raise", "nochoices", "nocontent", "content"}

\* the analysis returned, with the branch it came from
Analysis(source, segs) == [source |-> source, text |-> segs]
NoAnalysis == Analysis("unset", <<>>)

\* generate_analysis_and_insights, given the outcome of the completion
\* call should it be made; called tells whether the call is made
CompletionCalled(context) == context.ok

generate_analysis_and_insights(context, outcome, part_data_empty, cbs_data_empty, market_indices, part_number) ==
    IF context.ok /\ outcome = "content"
    THEN Analysis("completion", <<Lit("<message.content>")>>)
    ELSE IF context.ok /\ outcome = "nocontent"
    THEN Analysis("default", <<Lit("Analysis completed successfully.")>>)
    ELSE Analysis("template",
                  _generate_fallback_analysis(part_data_empty, cbs_data_empty,
                                              market_indices, part_number))
----------------------------------------------------------------------------
(* main.py: helpers of the handlers.                                       *)

\* mutant: no test for NaN and Infinity
safe_float_unchecked(val) ==
    IF val.t = "none" THEN Zero
    ELSE IF ~FloatOf(val).ok THEN Zero
    ELSE FloatOf(val).val

\* safe_float(val)
safe_float(val) ==
    IF val.t = "none" THEN Zero
    ELSE IF ~FloatOf(val).ok THEN Zero                 \* except Exception
    ELSE IF pd_isna(FloatOf(val).val) \/ math_isinf(FloatOf(val).val).val THEN Zero
    ELSE FloatOf(val).val

\* clean_for_json on a float, and on a datetime (str(obj))
CleanFloat(v) == IF pd_isna(v) \/ v.t \in {"inf", "ninf"} THEN Zero ELSE v
CleanDate(d)  == [d EXCEPT !.how = "str"]

\* mutant: only floats are touched, a datetime stays a datetime
clean_for_json_floats_only(chart) ==
    [chart EXCEPT !.y = [i \in 1..Len(chart.y) |-> CleanFloat(chart.y[i])]]

\* clean_for_json(ensure_dict(convert_ndarrays_to_lists(chart)))
clean_for_json(chart) ==
    [chart EXCEPT !.x = [i \in 1..Len(chart.x) |-> CleanDate(chart.x[i])],
                  !.y = [i \in 1..Len(chart.y) |-> CleanFloat(chart.y[i])]]

\* exceptions: fastapi's HTTPException, or another one
HTTPException(status_code, detail) ==
    [type |-> "HTTPException", status |-> status_code, detail |-> detail]
Error(type) == [type |-> type, status |-> 0, detail |-> <<Lit(type)>>]
NoException == [type |-> "none", status |-> 0, detail |-> <<>>]

\* responses
NoBody  == [success |-> FALSE]
Pending == [status |-> 0, detail |-> <<>>, body |-> NoBody]
HTTPError(status, detail) == [status |-> status, detail |-> detail, body |-> NoBody]
HTTPOk(body) == [status |-> 200, detail |-> <<>>, body |-> body]

\* mutant: every exception is answered with 500
chat_except_any(e) ==
    HTTPError(500, <<Lit("Internal server error: ")>> \o e.detail)

\* mutant: the 500 does not carry the message of the exception
chat_except_silent(e) ==
    IF e.type = "HTTPException"
    THEN HTTPError(e.status, e.detail)
    ELSE HTTPError(500, <<Lit("Internal server error")>>)

\* the handlers of chat_endpoint's try:
\*   except HTTPException: raise
\*   except Exception as e: raise HTTPException(500, f"Internal server error: {str(e)}")
chat_except(e) ==
    IF e.type = "HTTPException"
    THEN HTTPError(e.status, e.detail)
    ELSE HTTPError(500, <<Lit("Internal server error: ")>> \o e.detail)

\* str(e) of an HTTPException is "<status_code>: <detail>"
StrOf(e) ==
    IF e.type = "HTTPException"
    THEN <<Number(Num(e.status)), Lit(": ")>> \o e.detail
    ELSE e.detail

\* the handler of get_part_info's try:
\*   except Exception as e: raise HTTPException(status_code=500, detail=str(e))
part_info_except(e) == HTTPError(500, StrOf(e))

\* mutant: the test is dropped
IsFalsyNever(part_number) == FALSE

\* if not part_number
IsFalsy(part_number) == ~part_number.some \/ part_number.s = <<>>

\* mutant: the lookup is made whatever the mapping gave
HasCategoryAlways(category) == TRUE

\* if index_material_c3: the mapping gives a name or None
HasCategory(category) == category # NoCategory

\* the value read from the answer of get_baseline_index:
\*   if data and len(data) > 0:
\*       try: monthly_avg = data[0].get('monthlyavgeuro')
\*            if monthly_avg is not None: value = float(monthly_avg)
\*       except (ValueError, TypeError, KeyError): value = None
CurrentValue(data) ==
    IF ~data.some \/ data.rows = <<>> THEN Ok(NoneVal)
    ELSE LET monthly_avg == data.rows[1].monthlyavgeuro
             f == FloatOf(monthly_avg)
         IN  IF monthly_avg.t \in {"absent", "none"} THEN Ok(NoneVal)
             ELSE IF f.ok THEN f
             ELSE IF f.exc \in {"ValueError", "TypeError", "KeyError"} THEN Ok(NoneVal)
             ELSE f

\* pd.DataFrame(trend) if trend else pd.DataFrame()
TrendFrame(trend) == IF trend.some /\ trend.rows # <<>> THEN trend.rows ELSE <<>>

IndexNames == {"raw_material", "electricity", "gas"}

----------------------------------------------------------------------------
(* Input texts: up to MaxTokens tokens, concatenated.                      *)

MaxTokens == 4

Tokens ==
    { <<"P", "A", "-", "1">>,            \* PA-1
      <<"p", "a", "-", "2">>,            \* pa-2
      <<"p", "a", "r", "t", " ">>,       \* "part "
      <<"P", "A", "R", "T">>,            \* PART
      <<"X", "-", "3">>,                 \* X-3
      <<"y", "-", "4">>,                 \* y-4
      <<"Q">>, <<"-">>, <<"0">>, <<" ">>, <<"?">> }

RECURSIVE Concat(_)
Concat(ts) == IF ts = <<>> THEN <<>> ELSE Head(ts) \o Concat(Tail(ts))

TokenSeqs == UNION { [1..n -> Tokens] : n \in 0..MaxTokens }
Texts == { Concat(ts) : ts \in TokenSeqs }

----------------------------------------------------------------------------
(* The extraction harness: draw a text, extract, extract again from the    *)
(* result.                                                                 *)

InitExtract ==
    /\ text \in Texts
    /\ extracted = NoneStr
    /\ reextracted = NoneStr
    /\ xpc = "input"
    \* the period-key harness is off
    /\ now = [year |-> 0, month |-> 0, day |-> 0]
    /\ current = <<>>
    /\ months = <<>>
    /\ mpc = "off"
    \* no request is handled
    /\ req = [endpoint |-> "none", pc |-> "off"]
    /\ resp = [status |-> 0]
    /\ io = [calls |-> <<>>]
    \* no function harness runs
    /\ arg = <<>>
    /\ res = <<>>
    /\ fpc = "off"

CallExtract ==
    /\ xpc = "input"
    /\ extracted' = extract_part_number(text)
    /\ xpc' = "called"
    /\ UNCHANGED <<text, reextracted>>
    /\ UNCHANGED <<mvars, cvars, fvars>>

\* extraction applied to a returned part number
CallExtractAgain ==
    /\ xpc = "called"
    /\ extracted.some
    /\ reextracted' = extract_part_number(extracted.s)
    /\ xpc' = "again"
    /\ UNCHANGED <<text, extracted>>
    /\ UNCHANGED <<mvars, cvars, fvars>>

NextExtract == CallExtract \/ CallExtractAgain

SpecExtract == InitExtract /\ [][NextExtract]_vars

----------------------------------------------------------------------------
(* The period-key harness: draw the current date, format it, list the      *)
(* trailing periods at the same instant.                                   *)

YearSpan == 3
Years == 2023..(2023 + YearSpan - 1)

Dates ==
    { d \in [year : Years, month : 1..12, day : 1..31] :
        d.day <= DaysInMonth(d.year, d.month) }

InitMonths ==
    /\ now \in Dates
    /\ current = <<>>
    /\ months = <<>>
    /\ mpc = "input"
    \* the extraction harness is off
    /\ text = <<>>
    /\ extracted = [some |-> FALSE, s |-> <<>>]
    /\ reextracted = [some |-> FALSE, s |-> <<>>]
    /\ xpc = "off"
    \* no request is handled
    /\ req = [endpoint |-> "none", pc |-> "off"]
    /\ resp = [status |-> 0]
    /\ io = [calls |-> <<>>]
    \* no function harness runs
    /\ arg = <<>>
    /\ res = <<>>
    /\ fpc = "off"

CallCurrentMonth ==
    /\ mpc = "input"
    /\ current' = get_current_month_format(now)
    /\ mpc' = "current"
    /\ UNCHANGED <<now, months>>
    /\ UNCHANGED <<xvars, cvars, fvars>>

CallLast12Months ==
    /\ mpc = "current"
    /\ months' = get_last_12_months(now)
    /\ mpc' = "listed"
    /\ UNCHANGED <<now, current>>
    /\ UNCHANGED <<xvars, cvars, fvars>>

NextMonths == CallCurrentMonth \/ CallLast12Months

SpecMonths == InitMonths /\ [][NextMonths]_vars

----------------------------------------------------------------------------
(* What a request can meet: messages, rows of the store, answers of the    *)
(* completion service.                                                     *)

Messages ==
    { <<"i", "n", "c", "r", "e", "a", "s", "e", " ", "p", "r", "i", "c", "e", " ", "o", "f", " ", "P", "A", "-", "1", "0", "1", "9", "7", " ", "b", "y", " ", "1", "0", "%">>,
      <<"p", "a", "r", "t", " ", "x", "-", "1", "2", " ", "r", "e", "v", "i", "e", "w">>,
      <<"p", "l", "e", "a", "s", "e", " ", "r", "e", "v", "i", "e", "w", " ", "p", "r", "i", "c", "i", "n", "g">>,
      <<>> }

PathPartNumbers == { <<"P", "A", "-", "1", "0", "1", "9", "7">>, <<"P", "A", "-", "0">> }

Field(col, val) == [col |-> col, val |-> val]

PartRows ==
    { [material |-> MatStr(<<"P", "A", "6", " ", "G", "F", "3", "0">>),
       fields   |-> << Field(<<"p", "r", "i", "c", "e", "j", "a", "n", "2", "0", "2", "4">>, Num(10)),
                       Field(<<"p", "r", "i", "c", "e", "f", "e", "b", "2", "0", "2", "4">>, Rat(25, 2)),
                       Field(<<"p", "r", "i", "c", "e", "m", "k", "t", "j", "a", "n", "2", "0", "2", "4">>, Num(9)) >>],
      [material |-> MatAbsent,
       fields   |-> << Field(<<"p", "r", "i", "c", "e", "j", "a", "n", "2", "3">>, Num(8)),
                       Field(<<"p", "r", "i", "c", "e", "m", "a", "r", "2", "0", "2", "4">>, NoneVal) >>],
      [material |-> MatNum,
       fields   |-> << >>],
      [material |-> MatNone,
       fields   |-> << Field(<<"p", "r", "i", "c", "e", "a", "p", "r", "2", "0", "2", "4">>, NumStr(11)) >>] }

CbsRows ==
    { [c \in ComponentSet |-> Num(SuggestedPercent(c))],
      [c \in {"rawmaterial", "machine", "energy"} |->
          CASE c = "rawmaterial" -> Rat(9, 2)
            [] c = "machine"     -> NoneVal
            [] OTHER             -> Zero],
      [c \in {"rawmaterial", "labor"} |->
          IF c = "rawmaterial" THEN Num(4) ELSE BadStr] }

IndexRow(month, value) == [month |-> month, monthlyavgeuro |-> value]

\* the first row decides; a second row is there to be ignored
IndexValues ==
    { Absent, NoneVal, Rat(3, 2), NumStr(7), BadStr, NaN, PosInf, NegInf, Huge }

IndexReplies(month) ==
    { RequestFails, Reply(200, <<>>) }
    \cup { Reply(200, <<IndexRow(Some(month), v), IndexRow(Some(month), Num(1))>>) :
             v \in IndexValues }

TrendReplies(month) ==
    { RequestFails, Reply(200, <<>>),
      Reply(200, <<IndexRow(Some(month), Num(2)), IndexRow(Some(month), Num(3))>>),
      Reply(200, <<IndexRow(NoneStr, Num(2))>>) }

\* the JSON body of an answer that is not 200: an object with a message
ErrorBody == [material |-> MatAbsent, fields |-> <<Field(<<"m", "e", "s", "s", "a", "g", "e">>, BadStr)>>]

PartReplies ==
    { RequestFails, Reply(401, <<ErrorBody>>), Reply(200, <<>>) }
    \cup { Reply(200, <<p>>) : p \in PartRows }

CbsReplies ==
    { RequestFails, Reply(200, <<>>) } \cup { Reply(200, <<c>>) : c \in CbsRows }

\* the date a request is served on
Clocks == { [year |-> 2025, month |-> 7, day |-> 15] }

----------------------------------------------------------------------------
(* The state of a request.                                                 *)

NoChart ==
    [kind |-> "unset", error |-> "", title |-> NoTitle,
     x |-> <<>>, y |-> <<>>, labels |-> <<>>]

NoIndices == [k \in IndexNames |-> NoneVal]

Request(endpoint, input) ==
    [endpoint |-> endpoint,
     pc |-> IF endpoint = "chat" THEN "extract" ELSE "part_info",
     message |-> IF endpoint = "chat" THEN input ELSE <<>>,
     part_number |-> IF endpoint = "chat" THEN <<>> ELSE input,
     part_data |-> NoRecord,
     cbs_data |-> NoRecord,
     is_suggested_cbs |-> FALSE,
     chart |-> [i \in 1..5 |-> NoChart],
     index_material_c3 |-> NoCategory,
     index_material |-> NoCategory,
     market_indices |-> NoIndices,
     trend |-> [k \in IndexNames |-> <<>>],
     \* market_indices_clean = {"raw_material": 0.0, "electricity": 0.0, "gas": 0.0}
     market_indices_clean |-> [k \in IndexNames |-> Zero],
     analysis |-> NoAnalysis,
     raised |-> NoException]                      \* what left the try block

NoIo ==
    [calls |-> <<>>,                              \* reads and calls, in order; an index
                                                  \* read is named with its index
     last |-> NotSent,                            \* the answer to the latest read
     suggest_calls |-> 0,                         \* calls of suggest_cbs_structure
     upstream |-> [k \in IndexNames |-> NotSent], \* the answers for the current period
     completion |-> "notcalled",                  \* what the completion service did
     prompt |-> NoIndices]                        \* the indices given to the prompt

Init ==
    /\ req \in { Request("chat", m) : m \in Messages }
               \cup { Request("part", p) : p \in PathPartNumbers }
    /\ resp = Pending
    /\ io = NoIo
    /\ now \in Clocks
    \* the harnesses of utils.py are off
    /\ current = <<>>
    /\ months = <<>>
    /\ mpc = "off"
    /\ text = <<>>
    /\ extracted = [some |-> FALSE, s |-> <<>>]
    /\ reextracted = [some |-> FALSE, s |-> <<>>]
    /\ xpc = "off"
    /\ arg = <<>>
    /\ res = <<>>
    /\ fpc = "off"

\* the handler goes on with locals r / ends with response rsp
\* mutant: the handler stays at the statement it has just run
GoOnAgain(r) == req' = [r EXCEPT !.pc = req.pc] /\ UNCHANGED resp

GoOn(r) == req' = r /\ UNCHANGED resp
EndWith(r, rsp) == req' = [r EXCEPT !.pc = "done"] /\ resp' = rsp

\* an exception e leaves the try block of chat_endpoint / of get_part_info
Except(r, e) == EndWith([r EXCEPT !.raised = e], chat_except(e))
PartInfoExcept(r, e) == EndWith([r EXCEPT !.raised = e], part_info_except(e))

\* mutant: a read that is sent again after its answer
CalledTwice(op, reply) == io' = [io EXCEPT !.calls = Append(Append(@, op), op), !.last = reply]

Called(op, reply) == io' = [io EXCEPT !.calls = Append(@, op), !.last = reply]

----------------------------------------------------------------------------
(* The material harness: draw a material text that names one category,     *)
(* map it.                                                                 *)

\* the text in capitals, as a record may hold it
Capitals(s) ==
    [i \in 1..Len(s) |->
        IF s[i] \in LowerLetters
        THEN Upper26[CHOOSE k \in 1..26 : Lower26[k] = s[i]]
        ELSE s[i]]

\* what may stand before and after the name of the material
PadsBefore == { <<>>, <<"G", "r", "a", "d", "e", " ">> }
PadsAfter  == { <<>>, <<" ", "G", "F", "3", "0">>, <<"/", "b", "l", "a", "c", "k">> }

\* the texts built around one keyword of row i of the default table
NamingCasesOf(i) ==
    { [material |-> MatStr(pre \o name \o suf), for_c3 |-> c3, named |-> DefaultTable[i].cat] :
        name \in UNION { {kw, Capitals(kw)} : kw \in DefaultTable[i].kws },
        pre \in PadsBefore, suf \in PadsAfter, c3 \in BOOLEAN }

NamingCases == UNION { NamingCasesOf(i) : i \in DOMAIN DefaultTable }

\* materials that name no category
OtherCases ==
    { [material |-> m, for_c3 |-> c3, named |-> NoCategory] :
        m \in { MatNone, MatNum, MatStr(<<>>), MatStr(<<"S", "t", "e", "e", "l", " ", "S", "2", "3", "5">>) }, c3 \in BOOLEAN }

InitMaterial ==
    /\ arg \in NamingCases \cup OtherCases
    /\ res = <<>>
    /\ fpc = "input"
    \* nothing else runs
    /\ text = <<>>
    /\ extracted = [some |-> FALSE, s |-> <<>>]
    /\ reextracted = [some |-> FALSE, s |-> <<>>]
    /\ xpc = "off"
    /\ now = [year |-> 0, month |-> 0, day |-> 0]
    /\ current = <<>>
    /\ months = <<>>
    /\ mpc = "off"
    /\ req = [endpoint |-> "none", pc |-> "off"]
    /\ resp = [status |-> 0]
    /\ io = [calls |-> <<>>]

CallMapMaterial ==
    /\ fpc = "input"
    /\ res' = map_material_to_index(arg.material, arg.for_c3)
    /\ fpc' = "called"
    /\ UNCHANGED <<arg, xvars, mvars, cvars>>

SpecMaterial == InitMaterial /\ [][CallMapMaterial]_vars


----------------------------------------------------------------------------
(* The price harness: draw a part record of one or two price fields, build *)
(* its price chart or its analysis context.                                *)

PriceMonths == { <<"j", "a", "n">>, <<"f", "e", "b">>, <<"x", "y", "z">> }
PriceYears  == { <<"2", "3">>, <<"2", "0", "2", "3">>, <<"2", "0", "2", "4">>, <<"2", "0", "x", "4">> }
PriceValues == { Num(8), Num(10), Num(600), Num(0 - 4), Zero, NaN, PosInf, NoneVal }

PriceFields ==
    { Field(<<"p", "r", "i", "c", "e">> \o mon \o yr, v) : mon \in PriceMonths, yr \in PriceYears, v \in PriceValues }

\* a record has a column once
PriceRecords ==
    { [material |-> MatAbsent, fields |-> <<f>>] : f \in PriceFields }
    \cup { [material |-> MatAbsent, fields |-> p] :
             p \in { q \in PriceFields \X PriceFields : q[1].col # q[2].col } }

InitPrice ==
    /\ arg \in PriceRecords
    /\ res = <<>>
    /\ fpc = "input"
    \* nothing else runs
    /\ text = <<>>
    /\ extracted = [some |-> FALSE, s |-> <<>>]
    /\ reextracted = [some |-> FALSE, s |-> <<>>]
    /\ xpc = "off"
    /\ now = [year |-> 0, month |-> 0, day |-> 0]
    /\ current = <<>>
    /\ months = <<>>
    /\ mpc = "off"
    /\ req = [endpoint |-> "none", pc |-> "off"]
    /\ resp = [status |-> 0]
    /\ io = [calls |-> <<>>]

CallPriceChart ==
    /\ fpc = "input"
    /\ res' = create_price_trend_chart(arg, <<"P", "-", "1">>)
    /\ fpc' = "chart"
    /\ UNCHANGED <<arg, xvars, mvars, cvars>>

CallPrepareContext ==
    /\ fpc = "input"
    /\ res' = _prepare_analysis_context(arg, [c \in {} |-> Zero], NoIndices,
                                        [k \in IndexNames |-> <<>>], <<"P", "-", "1">>, <<"r", "e", "v", "i", "e", "w", " ", "P", "-", "1">>)
    /\ fpc' = "context"
    /\ UNCHANGED <<arg, xvars, mvars, cvars>>

CallSuggestCbs ==
    /\ fpc = "input"
    /\ res' = suggest_cbs_structure(arg)
    /\ fpc' = "suggest"
    /\ UNCHANGED <<arg, xvars, mvars, cvars>>

NextPrice == CallPriceChart \/ CallPrepareContext \/ CallSuggestCbs

SpecPrice == InitPrice /\ [][NextPrice]_vars

----------------------------------------------------------------------------
(* The trend harness: draw the rows the store returns for one index, in    *)
(* some order, and run the loops of the trend chart or the trend summary.  *)

TrendMonthKeys ==
    { Some(<<"e", "n", "e", "-", "2", "5">>), Some(<<"j", "u", "n", "-", "2", "5">>), Some(<<"j", "u", "l", "-", "2", "5">>), Some(<<"a", "g", "o", "-", "2", "5">>),
      Some(<<"j", "a", "n", "-", "2", "5">>), Some(<<"a", "u", "g", "-", "2", "5">>), Some(<<"j", "u", "l", "2", "5">>), Some(<<"j", "u", "l", "-", "2", "x">>), NoneStr }
TrendNumbers == { Num(2), Num(3), Num(5) }

TrendRows == { IndexRow(k, v) : k \in TrendMonthKeys, v \in TrendNumbers }

\* one or two rows of any kind, or three rows of two months
TrendRowSeqs ==
    { <<r>> : r \in TrendRows }
    \cup (TrendRows \X TrendRows)
    \cup { <<r[1], r[2], r[3]>> :
             r \in { IndexRow(k, v) : k \in { Some(<<"j", "u", "n", "-", "2", "5">>), Some(<<"j", "u", "l", "-", "2", "5">>) },
                                      v \in TrendNumbers }
                   \X { IndexRow(Some(<<"j", "u", "l", "-", "2", "5">>), v) : v \in TrendNumbers }
                   \X { IndexRow(k, v) : k \in { Some(<<"j", "u", "n", "-", "2", "5">>), Some(<<"a", "g", "o", "-", "2", "5">>) },
                                         v \in TrendNumbers } }

InitTrend ==
    /\ arg \in { [rows |-> s] : s \in TrendRowSeqs }
    /\ res = <<>>
    /\ fpc = "input"
    /\ now = [year |-> 2025, month |-> 7, day |-> 15]
    \* nothing else runs
    /\ text = <<>>
    /\ extracted = [some |-> FALSE, s |-> <<>>]
    /\ reextracted = [some |-> FALSE, s |-> <<>>]
    /\ xpc = "off"
    /\ current = <<>>
    /\ months = <<>>
    /\ mpc = "off"
    /\ req = [endpoint |-> "none", pc |-> "off"]
    /\ resp = [status |-> 0]
    /\ io = [calls |-> <<>>]

\* the two loops of create_market_trend_chart, up to the test of the lengths
CallTrendSeries ==
    /\ fpc = "input"
    /\ res' = [dates  |-> TrendDates(arg.rows, now),
               values |-> [i \in 1..Len(arg.rows) |-> TrendValues(arg.rows)[i].val]]
    /\ fpc' = "series"
    /\ UNCHANGED <<arg, xvars, mvars, cvars>>

\* the trends loop of _prepare_analysis_context, and the price trend of a
\* record whose price fields hold the same numbers
CallTrendContext ==
    /\ fpc = "input"
    /\ LET part_data == [material |-> MatAbsent,
                         fields |-> [i \in 1..Len(arg.rows) |->
                                       Field(<<"p", "r", "i", "c", "e">> \o english_month_names[i] \o <<"2", "0", "2", "4">>,
                                             arg.rows[i].monthlyavgeuro)]]
           context == _prepare_analysis_context(part_data, [c \in {} |-> Zero], NoIndices,
                          [k \in IndexNames |-> arg.rows], <<"P", "-", "1">>, <<"r", "e", "v", "i", "e", "w", " ", "P", "-", "1">>)
       IN  res' = [ok |-> context.ok,
                   trend |-> TrendSummary(arg.rows),
                   price_trend |-> PriceTrend(context.val)]
    /\ fpc' = "context"
    /\ UNCHANGED <<arg, xvars, mvars, cvars>>

NextTrend == CallTrendSeries \/ CallTrendContext

SpecTrend == InitTrend /\ [][NextTrend]_vars

----------------------------------------------------------------------------
(* The breakdown harness: draw a cost breakdown record, build its chart.   *)

CbsValues ==
    { Num(4), Num(6), Num(600), Zero, Num(0 - 1), NaN, PosInf, NoneVal, Absent }

\* three of the seven components, each with any value or missing, and
\* maybe a column that is no component
CbsRecords ==
    { [c \in { k \in {"rawmaterial", "machine", "profit"} : v[k] # Absent }
             \cup (IF extra THEN {"tooling"} ELSE {})
          |-> IF c = "tooling" THEN Num(6) ELSE v[c]] :
        v \in [{"rawmaterial", "machine", "profit"} -> CbsValues], extra \in BOOLEAN }

InitPie ==
    /\ arg \in { [cbs |-> r] : r \in CbsRecords }
    /\ res = <<>>
    /\ fpc = "input"
    \* nothing else runs
    /\ text = <<>>
    /\ extracted = [some |-> FALSE, s |-> <<>>]
    /\ reextracted = [some |-> FALSE, s |-> <<>>]
    /\ xpc = "off"
    /\ now = [year |-> 0, month |-> 0, day |-> 0]
    /\ current = <<>>
    /\ months = <<>>
    /\ mpc = "off"
    /\ req = [endpoint |-> "none", pc |-> "off"]
    /\ resp = [status |-> 0]
    /\ io = [calls |-> <<>>]

\* the chart, and the local list percentages with the total it is made from
CallPieChart ==
    /\ fpc = "input"
    /\ LET chart == create_cbs_pie_chart(arg.cbs, <<"P", "-", "1">>, FALSE)
           total == FloatSum(chart.val.y)
       IN  res' = [ok |-> chart.ok, chart |-> chart.val, total |-> total,
                   percentages |-> Percentages(chart.val.y, total)]
    /\ fpc' = "pie"
    /\ UNCHANGED <<arg, xvars, mvars, cvars>>

SpecPie == InitPie /\ [][CallPieChart]_vars
----------------------------------------------------------------------------
(* chat_endpoint, one action per stretch of the handler between two calls  *)
(* to the outside.  Whatever is raised goes through chat_except.           *)

\* step 1: the part number of the message, 400 without one
ChatExtract ==
    /\ req.endpoint = "chat" /\ req.pc = "extract"
    /\ LET part_number == extract_part_number(req.message)
       IN  IF IsFalsy(part_number)
           THEN Except(req, HTTPException(400,
                    <<Lit("No valid part number found in the message. Please include a part number (e.g., PA-10197).")>>))
           ELSE GoOn([req EXCEPT !.pc = "part", !.part_number = part_number.s])
    /\ UNCHANGED <<io, xvars, mvars, fvars>>

\* steps 2 and 3: the part record, 404 without one; chart 1
ChatFetchPart ==
    /\ req.endpoint = "chat" /\ req.pc = "part"
    /\ \E reply \in PartReplies :
        LET part_data_dict == get_part_from_master_file(reply)
            chart1 == create_price_trend_chart(part_data_dict.rec, req.part_number)
        IN
        /\  IF ~part_data_dict.some
            THEN Except(req, HTTPException(404,
                     <<Lit("Part "), Chars(req.part_number),
                       Lit(" not found in the master file.")>>))
            ELSE IF ~chart1.ok
            THEN Except([req EXCEPT !.part_data = part_data_dict], Error(chart1.exc))
            ELSE GoOn([req EXCEPT !.pc = "cbs",
                                  !.part_data = part_data_dict,
                                  !.chart[1] = chart1.val])
        /\ Called("master_file", reply)
    /\ UNCHANGED <<xvars, mvars, fvars>>

\* step 4 and the head of step 5: the breakdown, fetched or suggested;
\* chart 2; the index materials
ChatFetchCbs ==
    /\ req.endpoint = "chat" /\ req.pc = "cbs"
    /\ \E reply \in CbsReplies :
        LET part_data == req.part_data.rec
            cbs_data_dict == get_cbs_for_part(reply)
            is_suggested_cbs == ~cbs_data_dict.some
            suggested_cbs == suggest_cbs_structure(part_data)
            cbs_data == IF is_suggested_cbs THEN suggested_cbs.val ELSE cbs_data_dict.rec
            chart2 == create_cbs_pie_chart(cbs_data, req.part_number, is_suggested_cbs)
            material == MaterialOf(part_data)
            index_material_c3 == map_material_to_index(material, TRUE)
            index_material == map_material_to_index(material, FALSE)
            r == [req EXCEPT !.is_suggested_cbs = is_suggested_cbs]
        IN  /\ io' = [io EXCEPT !.calls = Append(@, "cbs_parts"), !.last = reply,
                                !.suggest_calls = IF is_suggested_cbs THEN @ + 1 ELSE @]
            /\ IF is_suggested_cbs /\ ~suggested_cbs.ok
               THEN Except(r, Error(suggested_cbs.exc))
               ELSE IF ~chart2.ok
               THEN Except([r EXCEPT !.cbs_data = Record(cbs_data)], Error(chart2.exc))
               ELSE IF ~index_material_c3.ok
               THEN Except([r EXCEPT !.cbs_data = Record(cbs_data), !.chart[2] = chart2.val], Error(index_material_c3.exc))
               ELSE GoOn([r EXCEPT !.pc = "raw_material",
                                   !.cbs_data = Record(cbs_data),
                                   !.chart[2] = chart2.val,
                                   !.index_material_c3 = index_material_c3.val,
                                   !.index_material = index_material.val])
    /\ UNCHANGED <<xvars, mvars, fvars>>

\* one current index: the value kept, or the exception that ends the request
CurrentIndex(k, next, reply) ==
    LET value == CurrentValue(get_baseline_index(reply))
    IN  /\ io' = [io EXCEPT !.calls = IF reply.sent THEN Append(@, "baseline_index/" \o k) ELSE @,
                            !.last = reply,
                            !.upstream[k] = reply]
        /\ IF ~value.ok
           THEN Except(req, Error(value.exc))
           ELSE GoOn([req EXCEPT !.pc = next, !.market_indices[k] = value.val])

\* step 5: the raw material index, asked for only with a C3 material
ChatCurrentRawMaterial ==
    /\ req.endpoint = "chat" /\ req.pc = "raw_material"
    /\ \E reply \in IF HasCategory(req.index_material_c3)
                    THEN IndexReplies(get_current_month_format(now))
                    ELSE {NotSent} :
        CurrentIndex("raw_material", "electricity", reply)
    /\ UNCHANGED <<xvars, mvars, fvars>>

ChatCurrentElectricity ==
    /\ req.endpoint = "chat" /\ req.pc = "electricity"
    /\ \E reply \in IndexReplies(get_current_month_format(now)) :
        CurrentIndex("electricity", "gas", reply)
    /\ UNCHANGED <<xvars, mvars, fvars>>

ChatCurrentGas ==
    /\ req.endpoint = "chat" /\ req.pc = "gas"
    /\ \E reply \in IndexReplies(get_current_month_format(now)) :
        CurrentIndex("gas", "raw_material_trend", reply)
    /\ UNCHANGED <<xvars, mvars, fvars>>

\* one trend: the frame and its chart, or the exception of the chart builder
TrendIndex(k, n, title, next, reply) ==
    LET trend_df == TrendFrame(get_baseline_index_trend(reply))
        chart == create_market_trend_chart(trend_df, title, now)
    IN  /\ io' = [io EXCEPT !.calls = IF reply.sent
                                      THEN Append(@, "baseline_index_trend/" \o k) ELSE @,
                            !.last = reply]
        /\ IF ~chart.ok
           THEN Except([req EXCEPT !.trend[k] = trend_df], Error(chart.exc))
           ELSE GoOn([req EXCEPT !.pc = next, !.trend[k] = trend_df, !.chart[n] = chart.val])

\* some month of the twelve asked for
TrendMonth == get_last_12_months(now)[12]

\* step 6: the three trends and charts 3, 4, 5
ChatTrendRawMaterial ==
    /\ req.endpoint = "chat" /\ req.pc = "raw_material_trend"
    /\ \E reply \in IF HasCategory(req.index_material_c3)
                    THEN TrendReplies(TrendMonth) ELSE {NotSent} :
        TrendIndex("raw_material", 3, "Raw Material Index Trend", "electricity_trend", reply)
    /\ UNCHANGED <<xvars, mvars, fvars>>

ChatTrendElectricity ==
    /\ req.endpoint = "chat" /\ req.pc = "electricity_trend"
    /\ \E reply \in TrendReplies(TrendMonth) :
        TrendIndex("electricity", 4, "Energy Index Electricity Trend", "gas_trend", reply)
    /\ UNCHANGED <<xvars, mvars, fvars>>

ChatTrendGas ==
    /\ req.endpoint = "chat" /\ req.pc = "gas_trend"
    /\ \E reply \in TrendReplies(TrendMonth) :
        TrendIndex("gas", 5, "Energy Index Gas Trend", "analysis", reply)
    /\ UNCHANGED <<xvars, mvars, fvars>>

\* step 7 and the response.  The agent is given market_indices_clean as it
\* stands at that line; the agent's own fallback leaves nothing for the
\* handler's except to catch.
ChatAnalysis ==
    /\ req.endpoint = "chat" /\ req.pc = "analysis"
    /\ \E outcome \in CompletionOutcomes :
        LET context == _prepare_analysis_context(req.part_data.rec, req.cbs_data.rec,
                           req.market_indices_clean, req.trend,
                           req.part_number, req.message)
            analysis == generate_analysis_and_insights(context, outcome,
                           FALSE, FALSE, req.market_indices_clean, req.part_number)
            market_indices_clean == [k \in IndexNames |-> safe_float(req.market_indices[k])]
        IN  /\ io' = IF CompletionCalled(context)
                     THEN [io EXCEPT !.calls = Append(@, "completion"),
                                     !.completion = outcome,
                                     !.prompt = context.val.market_data]
                     ELSE io
            /\ EndWith([req EXCEPT !.analysis = analysis,
                                   !.market_indices_clean = market_indices_clean],
                       HTTPOk([part_number |-> req.part_number,
                               chart |-> [i \in 1..5 |-> clean_for_json(req.chart[i])],
                               market_indices |-> market_indices_clean,
                               analysis |-> analysis,
                               success |-> TRUE,
                               message |-> <<Lit("Analysis completed successfully for part "),
                                             Chars(req.part_number)>>]))
    /\ UNCHANGED <<xvars, mvars, fvars>>

----------------------------------------------------------------------------
(* get_part_info: GET /part/{part_number}.                                 *)

PartInfo ==
    /\ req.endpoint = "part" /\ req.pc = "part_info"
    /\ \E reply \in PartReplies :
        LET part_data_dict == get_part_from_master_file(reply)
        IN
        /\  IF ~part_data_dict.some
            THEN PartInfoExcept(req, HTTPException(404, <<Lit("Part not found")>>))
            ELSE EndWith([req EXCEPT !.part_data = part_data_dict],
                         HTTPOk([part_number |-> req.part_number,
                                 data |-> part_data_dict.rec,
                                 success |-> TRUE]))
        /\ Called("master_file", reply)
    /\ UNCHANGED <<xvars, mvars, fvars>>

Next ==
    \/ ChatExtract
    \/ ChatFetchPart
    \/ ChatFetchCbs
    \/ ChatCurrentRawMaterial
    \/ ChatCurrentElectricity
    \/ ChatCurrentGas
    \/ ChatTrendRawMaterial
    \/ ChatTrendElectricity
    \/ ChatTrendGas
    \/ ChatAnalysis
    \/ PartInfo

Spec == Init /\ [][Next]_vars

----------------------------------------------------------------------------
(* Part-number extraction: properties.                                     *)

\* s is LETTERS-DIGITS: one or more letters, a hyphen, one or more digits
IsCodeString(s) ==
    \E h \in 2..(Len(s) - 1) :
        /\ s[h] = "-"
        /\ \A k \in 1..(h - 1) : IsLetter(s[k])
        /\ \A k \in (h + 1)..Len(s) : IsDigit(s[k])

HasCode(t) ==
    \E i \in 1..Len(t) : \E j \in i..Len(t) : IsCodeString(SubSeq(t, i, j))

\* C7: a text that contains a LETTERS-DIGITS substring yields a non-empty
\* result that is a LETTERS-DIGITS substring of the text, and extracting
\* again from the result returns the result.
C7_ExtractReturnsCodeIdempotent ==
    /\ (xpc # "input" /\ HasCode(text)) =>
            /\ extracted.some
            /\ extracted.s # <<>>
            /\ IsCodeString(extracted.s)
            /\ IsSubstring(extracted.s, text)
    /\ (xpc = "again") => reextracted = extracted

\* the result came out of the "part <code>" pattern and is a proper part
\* of the text, and the second extraction has run
C7_Witness ==
    /\ xpc = "again"
    /\ HasCode(text)
    /\ ~re_search(1, text).found
    /\ re_search(2, text).found
    /\ Len(extracted.s) < Len(text)
    /\ reextracted.some

\* C8: the returned part number holds only upper-case letters, however the
\* identifier is written in the text.
C8_ResultIsUppercase ==
    (xpc # "input" /\ extracted.some) =>
        \A k \in 1..Len(extracted.s) : extracted.s[k] \notin LowerLetters

\* the start positions at which pattern k matches
MatchStarts(k, t) == { i \in 1..Len(t) : MatchAt(k, t, i).found }

SetMin(S) == CHOOSE x \in S : \A y \in S : x <= y

\* C9: the result is the leftmost match of the highest-priority pattern that
\* matches anywhere; lower-priority matches are ignored, wherever they are.
C9_PriorityThenLeftmost ==
    (xpc # "input") =>
        LET hits == { k \in 1..NumPatterns : MatchStarts(k, text) # {} }
        IN  IF hits = {} THEN extracted = NoneStr
            ELSE LET k == SetMin(hits)
                     i == SetMin(MatchStarts(k, text))
                 IN  extracted = Some(GroupOf(text, MatchAt(k, text, i)))

\* a lower-priority pattern matches earlier in the text than the returned
\* match of the winning pattern, which itself matches more than once
C9_Witness ==
    /\ xpc = "called"
    /\ extracted.some
    /\ \E k \in 1..2 :
         /\ MatchStarts(k, text) # {}
         /\ \A j \in 1..(k - 1) : MatchStarts(j, text) = {}
         /\ Cardinality(MatchStarts(k, text)) > 1
         /\ \E j \in (k + 1)..NumPatterns :
                \E i \in MatchStarts(j, text) : i < SetMin(MatchStarts(k, text))

----------------------------------------------------------------------------
(* Period keys: properties.                                                 *)

\* the month a key names, counted from year 2000 (the century the chart
\* builder assumes: datetime(2000 + int(year), ...)); Years lies inside it
MonthIndex(key) ==
    LET mon == SubSeq(key, 1, 3)
        m   == CHOOSE k \in 1..12 : month_names[k] = mon
        yy  == 10 * DigitVal(key[5]) + DigitVal(key[6])
    IN  12 * yy + m

\* C10: twelve keys, oldest first and never going back in time, the last
\* one the current period.
C10_TwelveKeysChronological ==
    (mpc = "listed") =>
        /\ Len(months) = 12
        /\ \A i \in 1..12 : Len(months[i]) = 6 /\ months[i][4] = "-"
        /\ \A i \in 1..11 : MonthIndex(months[i]) <= MonthIndex(months[i + 1])
        /\ months[12] = current

\* the 30-day steps repeat one month and skip another, across a year's end
C10_Witness ==
    /\ mpc = "listed"
    /\ \E i \in 1..11 : months[i] = months[i + 1]
    /\ \E i \in 1..11 : MonthIndex(months[i + 1]) - MonthIndex(months[i]) = 2
    /\ \E i \in 1..11 : months[i][6] # months[i + 1][6]

----------------------------------------------------------------------------
(* Properties of the request handlers, checked under Spec.                 *)

IsChat == req.endpoint = "chat"
Ended  == req.pc = "done"

\* the number of times op is in the log of reads and calls
CountCalls(op) == Cardinality({ i \in 1..Len(io.calls) : io.calls[i] = op })

NoPartNumberDetail ==
    <<Lit("No valid part number found in the message. Please include a part number (e.g., PA-10197).")>>

\* C1: a POST /chat message in which extract_part_number finds nothing ends
\* with HTTP 400 whose detail speaks of the part number that is missing, and
\* the request makes no read of the store and no completion call.
C1_NoPartNumberEndsIn400 ==
    (IsChat /\ req.pc # "extract" /\ ~extract_part_number(req.message).some)
        => /\ Ended
           /\ resp.status = 400
           /\ resp.detail = NoPartNumberDetail
           /\ io.calls = <<>>

C1_Witness ==
    /\ IsChat /\ Ended
    /\ req.message # <<>>
    /\ ~extract_part_number(req.message).some
    /\ resp.status = 400

\* C2: a POST /chat request whose part number has no record in the master
\* file ends with HTTP 404 right after the part fetch: the fetch is the only
\* read, no completion call follows, and the status is 404, not 500.
C2_MissingPartEndsIn404 ==
    (IsChat /\ CountCalls("master_file") > 0 /\ ~req.part_data.some)
        => /\ Ended
           /\ resp.status = 404
           /\ io.calls = <<"master_file">>

C2_Witness ==
    /\ IsChat /\ Ended
    /\ io.calls = <<"master_file">>
    /\ ~req.part_data.some
    /\ resp.status = 404
    /\ TextContains(resp.detail, req.part_number)

\* C3: GET /part/{part_number} answers 200 with the raw record when the
\* store has one, and 404 when get_part_from_master_file returns nothing.
C3_PartInfoRecordOr404 ==
    (req.endpoint = "part" /\ Ended)
        => IF req.part_data.some
           THEN resp.status = 200 /\ resp.body.data = req.part_data.rec
           ELSE resp.status = 404

\* C4: when the completion call of a POST /chat request raises, the request
\* still ends with HTTP 200 and success=true, and its analysis is not empty,
\* comes from the local template and has the extracted part number in it;
\* the template path does not raise.
C4_CompletionFailureFallsBack ==
    (IsChat /\ io.completion = "raise")
        => /\ Ended
           /\ resp.status = 200
           /\ resp.body.success
           /\ resp.body.analysis.source = "template"
           /\ NonEmptyText(resp.body.analysis.text)
           /\ TextContains(resp.body.analysis.text, req.part_number)
           /\ resp.body.part_number = req.part_number
           /\ extract_part_number(req.message) = Some(req.part_number)

C4_Witness ==
    /\ IsChat /\ Ended
    /\ io.completion = "raise"
    /\ io.calls[Len(io.calls)] = "completion"
    /\ resp.status = 200
    /\ resp.body.analysis.source = "template"

\* the answer for the current period holds a number float() can read
UpstreamUsable(reply) ==
    /\ HasRows(reply)
    /\ reply.rows[1].monthlyavgeuro.t \in {"num", "numstr"}

\* C5: in a successful POST /chat response market_indices has exactly the
\* keys raw_material, electricity and gas, each a finite float; a field is
\* 0.0 whenever the upstream value is absent, null, unparseable, NaN or
\* infinite, or the lookup was skipped or failed.
C5_MarketIndicesFinite ==
    (IsChat /\ resp.status = 200)
        => /\ DOMAIN resp.body.market_indices = IndexNames
           /\ \A k \in IndexNames :
                /\ resp.body.market_indices[k].t = "num"
                /\ ~UpstreamUsable(io.upstream[k])
                      => resp.body.market_indices[k] = Zero

C5_Witness ==
    /\ IsChat /\ resp.status = 200
    /\ ~io.upstream["raw_material"].sent
    /\ HasRows(io.upstream["electricity"])
    /\ io.upstream["electricity"].rows[1].monthlyavgeuro = PosInf
    /\ io.upstream["gas"] = RequestFails
    /\ resp.body.market_indices = [k \in IndexNames |-> Zero]

\* C6: a POST /chat request whose part record exists obtains the breakdown
\* exactly once, by suggest_cbs_structure if and only if get_cbs_for_part
\* returned no record; chart 2 is titled "CBS-Suggested for <part>" if and
\* only if the breakdown was suggested; the request never ends in 400 and
\* returns success=true.
C6_BreakdownOnceAndSuccess ==
    (IsChat /\ Ended /\ req.part_data.some)
        => /\ CountCalls("cbs_parts") = 1
           /\ io.suggest_calls = (IF req.is_suggested_cbs THEN 1 ELSE 0)
           /\ resp.status # 400
           /\ resp.status = 200
           /\ resp.body.success
           /\ resp.body.chart[2].title.text = "CBS-Suggested for "
                <=> req.is_suggested_cbs

\* the request has made the read of the current value / of the trend of index k
ReadCurrent(k) == CountCalls("baseline_index/" \o k) > 0
ReadTrend(k)   == CountCalls("baseline_index_trend/" \o k) > 0

\* the handler is past the mapping of the material
Mapped == IsChat /\ req.pc \notin {"extract", "part", "cbs"}

\* C12: when the material maps to no C3 category the request makes neither
\* the current nor the trend read of the raw material index and puts no other
\* category in its place; a response then has raw_material 0.0 and an error
\* marker as chart 3, and the electricity and gas reads were made.
C12_NoCategorySkipsRawMaterial ==
    (Mapped /\ req.index_material_c3 = NoCategory)
        => /\ ~ReadCurrent("raw_material")
           /\ ~ReadTrend("raw_material")
           /\ ~io.upstream["raw_material"].sent
           /\ resp.status = 200
                 => /\ resp.body.market_indices["raw_material"] = Zero
                    /\ resp.body.chart[3].kind = "error"
                    /\ \A k \in {"electricity", "gas"} : ReadCurrent(k) /\ ReadTrend(k)

C12_Witness ==
    /\ IsChat /\ resp.status = 200
    /\ req.index_material_c3 = NoCategory
    /\ req.part_data.rec.material = MatAbsent
    /\ resp.body.chart[3].error = "No data available for Raw Material Index Trend"
    /\ ReadTrend("gas")

\* C13: a failure of the /chat pipeline other than the 400 for a missing
\* part number and the 404 for a missing part is answered with HTTP 500 whose
\* detail carries the message of the exception; the 400 and the 404 reach the
\* client with their own status and detail.
C13_FailuresAre500 ==
    (IsChat /\ Ended)
        => /\ resp.status \in {200, 400, 404, 500}
           /\ resp.status = 200 <=> req.raised = NoException
           /\ resp.status = 400 <=> ~extract_part_number(req.message).some
           /\ resp.status = 404 <=> (io.calls = <<"master_file">> /\ ~req.part_data.some)
           /\ resp.status \in {400, 404}
                 => /\ req.raised.type = "HTTPException"
                    /\ resp.status = req.raised.status
                    /\ resp.detail = req.raised.detail
           /\ resp.status = 500
                 => /\ req.raised.type \notin {"none", "HTTPException"}
                    /\ resp.detail = <<Lit("Internal server error: "), Lit(req.raised.type)>>

C13_Witness ==
    /\ IsChat /\ Ended
    /\ resp.status = 500
    /\ req.raised.type = "OverflowError"
    /\ req.pc = "done" /\ ReadCurrent("electricity") /\ ~ReadCurrent("gas")

\* the read was made and failed: the request raised, or the status is not 200
Failed(reply) == reply.sent /\ (reply.exc \/ reply.status # 200)

\* the latest entry of the log
LastCall == io.calls[Len(io.calls)]

\* C14: a store read that fails (exception or status other than 200) gives
\* what an absent record gives and no error of its own: in /chat a failed
\* part fetch ends in 404, a failed breakdown fetch leads to the suggested
\* breakdown, a failed index read leaves the value unset (0.0 in the
\* response) or an empty trend with the error marker as chart, and the
\* request goes on.
C14_FailedReadIsAbsentRecord ==
    (IsChat /\ io.calls # <<>> /\ Failed(io.last))
        => /\ get_part_from_master_file(io.last) = NoRecord
           /\ get_cbs_for_part(io.last) = NoRecord
           /\ get_baseline_index(io.last) = NoRows
           /\ get_baseline_index_trend(io.last) = NoRows
           /\ LastCall = "master_file"
                 => Ended /\ resp.status = 404 /\ ~req.part_data.some
           /\ LastCall = "cbs_parts"
                 => /\ req.is_suggested_cbs /\ io.suggest_calls = 1
                    /\ suggest_cbs_structure(req.part_data.rec).ok
                          => /\ req.cbs_data = Record(suggest_cbs_structure(req.part_data.rec).val)
                             /\ resp.status \notin {400, 404}
           /\ \A k \in IndexNames :
                /\ LastCall = "baseline_index/" \o k
                      => /\ req.market_indices[k] = NoneVal
                         /\ ~Ended /\ req.raised = NoException
                /\ LastCall = "baseline_index_trend/" \o k
                      => /\ req.trend[k] = <<>>
                         /\ req.raised = NoException
                         /\ \E n \in 3..5 :
                               req.chart[n].error = "No data available for "
                                   \o (CASE k = "raw_material" -> "Raw Material Index Trend"
                                         [] k = "electricity"  -> "Energy Index Electricity Trend"
                                         [] OTHER              -> "Energy Index Gas Trend")
           /\ resp.status = 200
                 => \A k \in IndexNames :
                       Failed(io.upstream[k]) => resp.body.market_indices[k] = Zero

C14_Witness ==
    /\ IsChat /\ io.calls # <<>>
    /\ io.last = RequestFails
    /\ LastCall = "cbs_parts"
    /\ req.pc = "raw_material"
    /\ req.chart[2].title.text = "CBS-Suggested for "

\* a chart that holds no NaN and no Infinity
NoNanInf(chart) ==
    \A j \in 1..Len(chart.y) : ~pd_isna(chart.y[j]) /\ chart.y[j].t \notin {"inf", "ninf"}

\* C15 (as stated): on a chart without NaN and Infinity, dates on the axis
\* included, clean_for_json gives back its input, and cleaning twice is
\* cleaning once.
C15_CleanIsIdentity ==
    (IsChat /\ resp.status = 200)
        => \A i \in 1..5 :
              NoNanInf(req.chart[i])
                 => /\ resp.body.chart[i] = req.chart[i]
                    /\ clean_for_json(resp.body.chart[i]) = resp.body.chart[i]

\* C15 (amended): cleaning twice is cleaning once, and a chart without NaN
\* and Infinity keeps its kind, title, labels, numbers and length; each
\* datetime of its axis is replaced by its text (str), so the cleaned chart
\* equals its input exactly when the axis holds no datetime.
C15_CleanKeepsAllButDates ==
    (IsChat /\ resp.status = 200)
        => \A i \in 1..5 :
              LET c   == req.chart[i]
                  out == resp.body.chart[i]
              IN  /\ clean_for_json(out) = out
                  /\ NoNanInf(c)
                        => /\ [out EXCEPT !.x = c.x] = c
                           /\ Len(out.x) = Len(c.x)
                           /\ \A j \in 1..Len(c.x) :
                                 /\ c.x[j].how \in {"parsed", "now"}
                                 /\ out.x[j] = [c.x[j] EXCEPT !.how = "str"]
                           /\ (out = c) <=> (c.x = <<>>)

C15_Witness ==
    /\ IsChat /\ resp.status = 200
    /\ NoNanInf(req.chart[1])
    /\ req.chart[1].x # <<>>
    /\ resp.body.chart[1].x[1].how = "str"
    /\ resp.body.chart[2] = req.chart[2] /\ req.chart[2].y # <<>>

\* C16: the current index values given to the analysis (the market_data of
\* its context, read by the prompt and by the fallback report) are the
\* market_indices of the response of the same request.
C16_ContextIndicesAreResponseIndices ==
    (IsChat /\ resp.status = 200 /\ CountCalls("completion") = 1)
        => io.prompt = resp.body.market_indices

\* the stages of chat_endpoint and its calls to the outside, in the order of
\* the handler's text
StageOrder ==
    << "extract", "part", "cbs", "raw_material", "electricity", "gas",
       "raw_material_trend", "electricity_trend", "gas_trend", "analysis", "done" >>
CallOrder ==
    << "master_file", "cbs_parts",
       "baseline_index/raw_material", "baseline_index/electricity", "baseline_index/gas",
       "baseline_index_trend/raw_material", "baseline_index_trend/electricity",
       "baseline_index_trend/gas", "completion" >>
RankIn(order, x) == CHOOSE i \in 1..Len(order) : order[i] = x

\* C17: /chat moves forward only through its stages (extraction, part
\* fetch, chart and breakdown, current index reads, trend reads, analysis
\* and response); no stage is entered twice, the completion call comes
\* after every store read of the request, and a request ends with exactly
\* one of 200, 400, 404, 500.
C17_ForwardOnlyStages ==
    /\ [][IsChat => /\ RankIn(StageOrder, req'.pc) > RankIn(StageOrder, req.pc)
                    /\ resp.status = 0
                    /\ \E added \in {<<>>} \cup {<<c>> : c \in {CallOrder[i] : i \in 1..Len(CallOrder)}} :
                          io'.calls = io.calls \o added]_vars
    /\ [](IsChat => /\ \A i, j \in 1..Len(io.calls) :
                          i < j => RankIn(CallOrder, io.calls[i]) < RankIn(CallOrder, io.calls[j])
                    /\ Ended <=> resp.status \in {200, 400, 404, 500}
                    /\ ~Ended => resp = Pending)

C17_Witness ==
    /\ IsChat /\ Ended /\ resp.status = 200
    /\ io.calls = CallOrder

----------------------------------------------------------------------------
(* Properties of the mapping of materials, checked under SpecMaterial.     *)

\* C11: with the default table a material text that names a category, by
\* holding one of its keywords, is mapped to that category, for each of
\* PA6, PA66, PP, PPS and PPA.
C11_FiveCategoriesDistinguished ==
    (fpc = "called" /\ ~arg.for_c3 /\ arg.named # NoCategory)
        => res = Ok(arg.named)


----------------------------------------------------------------------------
(* Properties of the price series, checked under SpecPrice.                *)

\* the name of the field is "price", a 3-letter English month and a year of
\* the given number of digits
MonthYearSuffix(f, digits) ==
    LET s == SubSeq(f.col, 6, Len(f.col))
    IN  /\ SubSeq(f.col, 1, 5) = <<"p", "r", "i", "c", "e">>
        /\ Len(s) = 3 + digits
        /\ \E k \in 1..12 : english_month_names[k] = SubSeq(s, 1, 3)
        /\ AllDigits(SubSeq(s, 4, Len(s)))

\* the value is a number, positive and finite
PositiveFinite(v) == v.t = "num" /\ v.n > 0

\* the fields of the record for which the test holds, in the declared order
FieldsWith(Test(_)) == SelectSeq(arg.fields, Test)

\* C19 (as stated): a price field whose suffix is an English month and a
\* year of 2 or of 4 digits, with a positive finite value, gives a point of
\* the price series ("jan23" as "jan2023" does), and nothing else does.
C19_TwoOrFourDigitYears ==
    fpc = "chart"
        => LET Point(f) == /\ MonthYearSuffix(f, 2) \/ MonthYearSuffix(f, 4)
                           /\ PositiveFinite(f.val)
           IN  res.ok /\ Len(res.val.y) = Len(FieldsWith(Point))

\* C19 (amended): a price field gives a point of the price series exactly
\* when its suffix is an English month and a year of 4 digits and its value
\* is positive and finite; the points stand in the declared order of the
\* fields, each with the first day of its month as date; a suffix with a
\* year of 2 digits ("jan23") gives no point; without a point the chart is
\* the error marker.
C19_FourDigitYearsOnly ==
    fpc = "chart"
        => LET Point(f) == MonthYearSuffix(f, 4) /\ PositiveFinite(f.val)
               kept == FieldsWith(Point)
           IN  /\ res.ok
               /\ Len(res.val.y) = Len(kept) /\ Len(res.val.x) = Len(kept)
               /\ \A i \in 1..Len(kept) :
                     /\ res.val.y[i] = kept[i].val
                     /\ res.val.x[i].day = 1
                     /\ english_month_names[res.val.x[i].month] = SubSeq(kept[i].col, 6, 8)
                     /\ res.val.x[i].year = DigitsToInt(SubSeq(kept[i].col, 9, 12))
               /\ kept = <<>> => res.val = ErrorChart("No valid price data found")

C19_Witness ==
    /\ fpc = "chart"
    /\ arg.fields = << Field(<<"p", "r", "i", "c", "e", "j", "a", "n", "2", "3">>, Num(8)), Field(<<"p", "r", "i", "c", "e", "f", "e", "b", "2", "0", "2", "4">>, Num(10)) >>
    /\ res.ok /\ res.val.y = << Num(10) >>
    /\ res.val.x = << ChartDate(2024, 2, "parsed") >>

\* the month a price field stands for, counted in months
MonthOf(f) ==
    12 * DigitsToInt(SubSeq(f.col, 9, 12))
       + (CHOOSE k \in 1..12 : english_month_names[k] = SubSeq(f.col, 6, 8))

\* C20: the current price of the analysis context is the price of the
\* latest month among the price fields whose value is non-null, positive
\* and finite, in whatever order the record declares its fields.
C20_CurrentPriceIsLatestMonth ==
    (fpc = "context" /\ \A i \in 1..Len(arg.fields) : MonthYearSuffix(arg.fields[i], 4))
        => LET Priced(f) == PositiveFinite(f.val)
               kept == FieldsWith(Priced)
           IN  /\ res.ok
               /\ kept = <<>> => CurrentPrice(res.val) = Absent
               /\ \A i \in 1..Len(kept) :
                     (\A j \in 1..Len(kept) : MonthOf(kept[j]) <= MonthOf(kept[i]))
                        => CurrentPrice(res.val) = kept[i].val


\* the average of the valid prices of the record, 100 without one
AveragePrice ==
    LET kept == FieldsWith(LAMBDA f : PositiveFinite(f.val))
    IN  IF kept = <<>> THEN Num(100)
        ELSE RatDiv(RatSum([i \in 1..Len(kept) |-> kept[i].val]), Num(Len(kept)))

\* the seven values are the shares 35, 20, 15, 10, 8, 7, 5 percent of avg
\* under the seven names, each a finite number not below 0, adding up to avg
SharesOf(avg) ==
    /\ res.ok
    /\ DOMAIN res.val = { "rawmaterial", "machine", "labor", "overhead",
                          "energy", "packaginglogistics", "profit" }
    /\ \A c \in DOMAIN res.val : res.val[c].t = "num" /\ res.val[c].n >= 0
    /\ res.val.rawmaterial = RatMul(avg, Rat(35, 100))
    /\ res.val.machine = RatMul(avg, Rat(20, 100))
    /\ res.val.labor = RatMul(avg, Rat(15, 100))
    /\ res.val.overhead = RatMul(avg, Rat(10, 100))
    /\ res.val.energy = RatMul(avg, Rat(8, 100))
    /\ res.val.packaginglogistics = RatMul(avg, Rat(7, 100))
    /\ res.val.profit = RatMul(avg, Rat(5, 100))
    /\ RatSum(<< res.val.rawmaterial, res.val.machine, res.val.labor, res.val.overhead,
                 res.val.energy, res.val.packaginglogistics, res.val.profit >>) = avg

\* the sum of the valid prices of the record is a finite float
SumInRange ==
    LET kept == FieldsWith(LAMBDA f : PositiveFinite(f.val))
        sum  == RatSum([i \in 1..Len(kept) |-> kept[i].val])
    IN  sum.n <= MaxFloat * sum.d

----------------------------------------------------------------------------
(* Properties of the market index series, checked under SpecTrend.         *)

\* the period keys the queries are made with: a month of the table of
\* get_current_month_format, '-', two digits
QueryKey(k) ==
    /\ k.some /\ Len(k.s) = 6 /\ k.s[4] = "-"
    /\ \E m \in 1..12 : month_names[m] = SubSeq(k.s, 1, 3)
    /\ AllDigits(SubSeq(k.s, 5, 6))

\* the period of such a key, counted in months
PeriodOf(k) ==
    12 * DigitsToInt(SubSeq(k.s, 5, 6))
       + (CHOOSE m \in 1..12 : month_names[m] = SubSeq(k.s, 1, 3))

\* the months of a date of the chart
MonthsOf(d) == 12 * (d.year - 2000) + d.month

\* C21: the rows of one index are used oldest period first, in whatever
\* order the store returns them: the dates of the chart do not go back, and
\* the first and the last value of the summary are those of the earliest
\* and of the latest period.
C21_SeriesOrderedByPeriod ==
    (fpc \in {"series", "context"} /\ \A i \in 1..Len(arg.rows) : QueryKey(arg.rows[i].month))
        => LET n == Len(arg.rows)
           IN  /\ fpc = "series"
                     => \A i, j \in 1..n : i < j => MonthsOf(res.dates[i]) <= MonthsOf(res.dates[j])
               /\ fpc = "context"
                     => \A i \in 1..n :
                           (\A j \in 1..n : PeriodOf(arg.rows[j].month) < PeriodOf(arg.rows[i].month)
                                            \/ j = i)
                              => res.trend.current = arg.rows[i].monthlyavgeuro

\* a key of three letters, '-', two digits, its month taken from the table
KeyOf(table, k) ==
    /\ k.some /\ Len(k.s) = 6 /\ k.s[4] = "-"
    /\ \E m \in 1..12 : table[m] = SubSeq(k.s, 1, 3)
    /\ AllDigits(SubSeq(k.s, 5, 6))

\* the first day of the month such a key names
DateOf(table, k) ==
    [year  |-> 2000 + DigitsToInt(SubSeq(k.s, 5, 6)),
     month |-> CHOOSE m \in 1..12 : table[m] = SubSeq(k.s, 1, 3),
     day   |-> 1, how |-> "parsed"]

\* the spellings of the twelve months in English
EnglishMonths ==
    << <<"j", "a", "n">>, <<"f", "e", "b">>, <<"m", "a", "r">>, <<"a", "p", "r">>, <<"m", "a", "y">>, <<"j", "u", "n">>,
       <<"j", "u", "l">>, <<"a", "u", "g">>, <<"s", "e", "p">>, <<"o", "c", "t">>, <<"n", "o", "v">>, <<"d", "e", "c">> >>

\* C22 (as stated): the chart reads the month of a period key with the
\* English table, so a key with another month ("ene-25", "ago-25") or one
\* that cannot be split or parsed gets the date "now"; there is one date
\* for each row.
C22_ChartUsesEnglishTable ==
    fpc = "series"
        => /\ Len(res.dates) = Len(arg.rows)
           /\ \A i \in 1..Len(arg.rows) :
                 res.dates[i] = IF KeyOf(EnglishMonths, arg.rows[i].month)
                                THEN DateOf(EnglishMonths, arg.rows[i].month)
                                ELSE NowDate(now)

\* C22 (amended): the chart reads the month of a period key with the table
\* the queries write it with (ene, feb, mar, abr, may, jun, jul, ago, sep,
\* oct, nov, dic): "ene-25" is the first of January 2025, and a key with a
\* month only English has (jan, apr, aug, dec), or one that cannot be split
\* or parsed, gets the date "now"; there is one date for each row.
C22_ChartUsesQueryTable ==
    fpc = "series"
        => /\ Len(res.dates) = Len(arg.rows)
           /\ \A i \in 1..Len(arg.rows) :
                 res.dates[i] = IF QueryKey(arg.rows[i].month)
                                THEN DateOf(month_names, arg.rows[i].month)
                                ELSE NowDate(now)

C22_Witness ==
    /\ fpc = "series"
    /\ arg.rows = << IndexRow(Some(<<"e", "n", "e", "-", "2", "5">>), Num(2)), IndexRow(Some(<<"a", "u", "g", "-", "2", "5">>), Num(3)) >>
    /\ res.dates = << ChartDate(2025, 1, "parsed"), NowDate(now) >>


\* the numbers of the rows drawn, in their order
SeriesValues == [i \in 1..Len(arg.rows) |-> arg.rows[i].monthlyavgeuro]

\* the direction from the number first to the number last
FromTo(first, last) ==
    IF last.n * first.d > first.n * last.d THEN "increasing"
    ELSE IF last.n * first.d < first.n * last.d THEN "decreasing"
    ELSE "stable"

\* C25: the trend of a series of numbers, of the prices of a part as of
\* the values of a market index, is read from its first and its last
\* element only: increasing if the last is greater, decreasing if it is
\* smaller, stable if they are equal; another number in place of an element
\* between them leaves the trend as it is.
C25_TrendFromFirstAndLast ==
    fpc = "context"
        => LET n == Len(SeriesValues)
           IN  /\ res.ok
               /\ res.trend.trend = FromTo(SeriesValues[1], SeriesValues[n])
               /\ res.price_trend = FromTo(SeriesValues[1], SeriesValues[n])
               /\ \A i \in 2..(n - 1) : \A v \in TrendNumbers :
                     /\ TrendSummary([arg.rows EXCEPT ![i].monthlyavgeuro = v]).trend
                            = res.trend.trend
                     /\ PriceTrend([prices |-> [SeriesValues EXCEPT ![i] = v]])
                            = res.price_trend

C25_Witness ==
    /\ fpc = "context"
    /\ SeriesValues = << Num(2), Num(5), Num(3) >>
    /\ res.ok /\ res.trend.trend = "increasing" /\ res.price_trend = "increasing"

----------------------------------------------------------------------------
(* Properties of the breakdown chart, checked under SpecPie.               *)

\* the seven components in their order
CanonicalComponents ==
    << "rawmaterial", "machine", "labor", "overhead", "energy", "packaginglogistics", "profit" >>

\* the values of the components that are present, positive and finite
SliceValues ==
    LET Kept(c) == c \in DOMAIN arg.cbs /\ PositiveFinite(arg.cbs[c])
        kept == SelectSeq(CanonicalComponents, Kept)
    IN  [i \in 1..Len(kept) |-> arg.cbs[kept[i]]]

\* the chart has the slices of SliceValues and no field of percentages
SlicesAsKept ==
    /\ res.ok
    /\ res.chart.y = SliceValues
    /\ Len(res.chart.labels) = Len(SliceValues)
    /\ "percentages" \notin DOMAIN res.chart
    /\ \A i \in 1..Len(res.percentages) : res.percentages[i].t = "num"

=============================================================================
